---- MODULE Spec2Model ----
(***************************************************************************)
(* Model of the note-columns ingestion / evaluation engine:                *)
(*   - the three repositories (article_references, articles, evaluations), *)
(*   - the rate limiter (RateLimiter / MultiServiceRateLimiter),           *)
(*   - the evaluator (ArticleEvaluator) with its duplicate-score detector, *)
(*   - the two drivers that the repository ships: the improved daily batch *)
(*     (ImprovedDailyBatchProcessor) and the batch evaluation script       *)
(*     (BatchEvaluator.evaluate_batch).                                    *)
(* Each subsystem has its own specification over the shared variables.     *)
(***************************************************************************)
EXTENDS Integers, Sequences, FiniteSets, TLC

VARIABLES
    refs,               \* table article_references: (key, urlname) -> row
    articles,           \* table articles: id -> row
    evaluations,        \* table evaluations: sequence of rows (row id = index)
    storeLog            \* history: what the last repository call did

storeVars == <<refs, articles, evaluations, storeLog>>

VARIABLES
    clock,              \* time.time(), in seconds
    request_times,      \* RateLimiter.request_times (deque of timestamps)
    daily_count,        \* RateLimiter.daily_count
    last_reset_date,    \* RateLimiter.last_reset_date (the local day)
    callerPc,           \* per caller: "idle" | "admitted"
    awaitOutcome,       \* per caller: outcome of its last admission call
    admitted,           \* history: the instants at which a caller was admitted
    overlap,            \* history: a caller was admitted while another was
                        \* between its admission and its record_request
    ticks               \* number of time steps taken so far

limiterVars == <<clock, request_times, daily_count, last_reset_date, callerPc,
                 awaitOutcome, admitted, overlap, ticks>>

VARIABLES
    recent_evaluations, \* ArticleEvaluator.recent_evaluations
    checked,            \* history: the pattern of every result handed to
                        \* _check_for_duplicate_scores, in order
    evalLog             \* history: the last evaluation and what became of it

evaluatorVars == <<recent_evaluations, checked, evalLog>>

VARIABLES
    pc,                 \* "idle" | "batch" | "script": the entry point running
    runNo,              \* number of entry-point runs started so far
    queue,              \* the references / articles still to process in the run
    now,                \* datetime.now() as a logical timestamp
    sessionReady,       \* NoteScraper.client_code is set
    runLog              \* history of the current and the previous batch run

programVars == <<pc, runNo, queue, now, sessionReady, runLog>>

VARIABLES
    collector           \* one call of NoteScraper._fetch_api_article_list:
                        \* its loop variable and articles, and the history
                        \* of its list requests and sleeps

collectorVars == <<collector>>

VARIABLES
    startup             \* the process of daily_process_improved.py: where
                        \* main() is and which environment variables are set

startupVars == <<startup>>

VARIABLES
    probe               \* a RateLimiter with a per-second cap, its time kept
                        \* in tenths of a second, and the last wait computed

probeVars == <<probe>>

vars == <<storeVars, limiterVars, evaluatorVars, programVars, collectorVars,
          startupVars, probeVars>>

(***************************************************************************)
(* Bounds of the model                                                     *)
(***************************************************************************)
Keys == {"k1", "k2"}
Urlnames == {"u1"}
Categories == {"music", "movie"}
Titles == {"t1"}
MaxTime == 2
MaxRows == 3

RefIds == Keys \X Urlnames

(***************************************************************************)
(* ArticleReference (models/article_reference.py)                          *)
(***************************************************************************)
\* ArticleReference(...) as the collector builds it: is_processed is left
\* to its default, False.
ArticleReference(key, urlname, category, title, collected_at) ==
    [key |-> key, urlname |-> urlname, category |-> category, title |-> title,
     collected_at |-> collected_at, is_processed |-> FALSE]

\* Variant: the key alone.
ArticleIdFromKey(ref) == ref.key

\* ArticleReference.article_id: f"{self.urlname}_{self.key}"
article_id(ref) == ref.urlname \o "_" \o ref.key

\* ArticleReference.article_url: f"https://note.com/{self.urlname}/n/{self.key}"
article_url(ref) == "https://note.com/" \o ref.urlname \o "/n/" \o ref.key

ArticleIds == {article_id([key |-> id[1], urlname |-> id[2]]) : id \in RefIds}

(***************************************************************************)
(* ArticleReferenceRepository                                              *)
(***************************************************************************)
\* Variant: collected_at is stamped when the row is written, later on each
\* replacement of an existing row, instead of being taken from the object.
InsertOrReplaceReferenceStampingTime(store, ref) ==
    LET id == <<ref.key, ref.urlname>>
        row == [category |-> ref.category, title |-> ref.title,
                collected_at |-> IF id \in DOMAIN store
                                 THEN store[id].collected_at + 1
                                 ELSE ref.collected_at,
                is_processed |-> ref.is_processed]
    IN [x \in (DOMAIN store) \cup {id} |-> IF x = id THEN row ELSE store[x]]

\* One INSERT OR REPLACE INTO article_references: the whole row, the
\* is_processed column included, is taken from the object being saved.
InsertOrReplaceReference(store, ref) ==
    LET id == <<ref.key, ref.urlname>>
        row == [category |-> ref.category, title |-> ref.title,
                collected_at |-> ref.collected_at,
                is_processed |-> ref.is_processed]
    IN [x \in (DOMAIN store) \cup {id} |-> IF x = id THEN row ELSE store[x]]

\* save_references: the loop over the list; oks[i] = FALSE is an insert that
\* raised (caught and logged, the loop goes on).
RECURSIVE save_references(_, _, _)
save_references(store, references, oks) ==
    IF references = <<>> THEN [store |-> store, saved_count |-> 0]
    ELSE LET first == IF Head(oks)
                      THEN InsertOrReplaceReference(store, Head(references))
                      ELSE store
             rest == save_references(first, Tail(references), Tail(oks))
         IN [store |-> rest.store,
             saved_count |-> rest.saved_count + (IF Head(oks) THEN 1 ELSE 0)]

\* mark_as_processed: UPDATE ... SET is_processed = TRUE WHERE key, urlname;
\* ok = FALSE is an update that raised (returns False, row untouched).
mark_as_processed(store, key, urlname, ok) ==
    IF ok /\ <<key, urlname>> \in DOMAIN store
    THEN [store EXCEPT ![<<key, urlname>>].is_processed = TRUE]
    ELSE store

\* The rows with is_processed = FALSE, as a set of identities.
UnprocessedIds(store) == {id \in DOMAIN store : ~store[id].is_processed}

(***************************************************************************)
(* ArticleRepository                                                       *)
(***************************************************************************)
\* One INSERT OR REPLACE INTO articles: every column, is_evaluated included,
\* comes from the Article object.
InsertOrReplaceArticle(store, article) ==
    LET row == [title |-> article.title, category |-> article.category,
                content_preview |-> article.content_preview,
                is_evaluated |-> article.is_evaluated]
    IN [x \in (DOMAIN store) \cup {article.id} |->
            IF x = article.id THEN row ELSE store[x]]

\* save_article: one insert in a try/except; ok = FALSE is an insert that
\* raised.
save_article(store, article, ok) ==
    [store |-> IF ok THEN InsertOrReplaceArticle(store, article) ELSE store,
     saved |-> ok]

\* save_articles with the one-element list the batch passes: execute_many,
\* and when that raises the per-article fallback through save_article.
save_articles(store, article, batchOk, singleOk) ==
    IF batchOk
    THEN [store |-> InsertOrReplaceArticle(store, article), saved_count |-> 1]
    ELSE LET r == save_article(store, article, singleOk)
         IN [store |-> r.store, saved_count |-> IF r.saved THEN 1 ELSE 0]

\* mark_as_evaluated: UPDATE articles SET is_evaluated = TRUE WHERE id = ?
mark_as_evaluated(store, id, ok) ==
    IF ok /\ id \in DOMAIN store
    THEN [store EXCEPT ![id].is_evaluated = TRUE]
    ELSE store

\* get_unevaluated_articles: the ids of the rows with is_evaluated = FALSE.
get_unevaluated_articles(store) == {id \in DOMAIN store : ~store[id].is_evaluated}

(***************************************************************************)
(* EvaluationRepository                                                    *)
(***************************************************************************)
\* Schema of table evaluations: its key is the row id; article_id is only
\* indexed, so a second row for the same article_id is accepted.
ArticleIdIsUniqueKey == FALSE

\* The columns an INSERT INTO evaluations binds: article_id, the three
\* scores, total_score and ai_summary (and the two timestamps).  The retry
\* columns are not in the column list.
EvaluationRow(evaluation) ==
    [article_id |-> evaluation.article_id,
     quality_score |-> evaluation.quality_score,
     originality_score |-> evaluation.originality_score,
     entertainment_score |-> evaluation.entertainment_score,
     total_score |-> evaluation.total_score,
     ai_summary |-> evaluation.ai_summary]

\* save_evaluation: one INSERT in a try/except.
save_evaluation(rows, evaluation, ok) ==
    LET accepted == ok /\ (ArticleIdIsUniqueKey =>
                            \A i \in 1..Len(rows) :
                                rows[i].article_id # evaluation.article_id)
    IN [rows |-> IF accepted THEN Append(rows, EvaluationRow(evaluation))
                 ELSE rows,
        saved |-> accepted]

\* save_evaluations with the one-element list the batch passes:
\* execute_many, and when that raises the fallback through save_evaluation.
save_evaluations(rows, evaluation, batchOk, singleOk) ==
    LET r == save_evaluation(rows, evaluation, batchOk \/ singleOk)
    IN [rows |-> r.rows, saved_count |-> IF r.saved THEN 1 ELSE 0]

\* _row_to_evaluation: builds the Evaluation from id, article_id, the scores,
\* total_score, ai_summary and the timestamps only; the retry fields take
\* the model's defaults.
_row_to_evaluation(rows, i) ==
    [id |-> i,
     article_id |-> rows[i].article_id,
     quality_score |-> rows[i].quality_score,
     originality_score |-> rows[i].originality_score,
     entertainment_score |-> rows[i].entertainment_score,
     total_score |-> rows[i].total_score,
     ai_summary |-> rows[i].ai_summary,
     is_retry_evaluation |-> FALSE,
     retry_reason |-> <<>>,
     evaluation_metadata |-> [present |-> FALSE]]

(***************************************************************************)
(* SpecRefStore: the reference repository under any sequence of calls      *)
(***************************************************************************)
\* The references one collection pass can hand to save_references.
CollectedReferences ==
    {ArticleReference(id[1], id[2], c, t, at) :
        id \in RefIds, c \in Categories, t \in Titles, at \in 1..MaxTime}

ReferenceLists ==
    {<<r>> : r \in CollectedReferences}
        \cup {<<r1, r2>> : r1 \in CollectedReferences, r2 \in CollectedReferences}

InitStores ==
    /\ refs = <<>>
    /\ articles = <<>>
    /\ evaluations = <<>>
    /\ storeLog = [op |-> "init"]

\* A call of save_references with one of the given lists; the history
\* keeps the list when keepList is set.
SaveReferencesCall(lists, keepList) ==
    \E references \in lists :
      \E oks \in [1..Len(references) -> BOOLEAN] :
        LET r == save_references(refs, references, oks)
        IN /\ refs' = r.store
           /\ storeLog' = [op |-> "save_references", before |-> refs,
                           references |-> IF keepList THEN references ELSE <<>>,
                           saved_count |-> r.saved_count]
           /\ UNCHANGED <<probeVars, startupVars, collectorVars, articles, evaluations, limiterVars, evaluatorVars,
                          programVars>>

RefStoreSaveReferences == SaveReferencesCall(ReferenceLists, FALSE)

RefStoreMarkAsProcessed ==
    \E id \in RefIds, ok \in BOOLEAN :
        /\ refs' = mark_as_processed(refs, id[1], id[2], ok)
        /\ storeLog' = [op |-> "mark_as_processed", before |-> refs]
        /\ UNCHANGED <<probeVars, startupVars, collectorVars, articles, evaluations, limiterVars, evaluatorVars,
                       programVars>>

(***************************************************************************)
(* RateLimiter (utils/rate_limiter.py)                                     *)
(***************************************************************************)
MinuteWindow == 60
DaySeconds == 86400

\* RateLimit of the service under test.  requests_per_second = 0 stands for
\* "not configured" (None): both are falsy in the test at line 74.
RequestsPerMinute == 2
RequestsPerDay == 2
RequestsPerSecond == 0

Callers == {"c1", "c2"}
MaxAdmissions == 5
MaxTicks == 2
TickSteps == {30, 61}
CallDurations == {1, 30}
StartClocks == {0, DaySeconds - 45}

\* time.strftime("%Y-%m-%d") of an instant: the number of its local day.
LocalDate(t) == t \div DaySeconds

\* __init__ line 32: _wait_if_needed is a plain function, so
\* asyncio.iscoroutinefunction(...) is False and _lock is None.
LockIsNone == TRUE

\* _reset_daily_counter_if_needed
ResetDailyCounterIfNeeded(lim, t) ==
    IF LocalDate(t) # lim.last_reset_date
    THEN [lim EXCEPT !.daily_count = 0, !.last_reset_date = LocalDate(t)]
    ELSE lim

\* _clean_old_requests: popleft while the oldest is more than 60 s old.
RECURSIVE CleanOldRequestTimes(_, _)
CleanOldRequestTimes(times, t) ==
    IF times # <<>> /\ t - Head(times) > MinuteWindow
    THEN CleanOldRequestTimes(Tail(times), t)
    ELSE times

CleanOldRequests(lim, t) ==
    [lim EXCEPT !.request_times = CleanOldRequestTimes(lim.request_times, t)]

\* The three checks of _wait_if_needed on the cleaned state, for a
\* RateLimit and with the time counted in units of 1/second s; 0 is "None".
WaitTime(rate_limit, second, lim, t) ==
    IF lim.daily_count >= rate_limit.requests_per_day
    THEN (t \div (DaySeconds * second) + 1) * DaySeconds * second - t
    ELSE IF /\ Len(lim.request_times) >= rate_limit.requests_per_minute
            /\ MinuteWindow * second - (t - Head(lim.request_times)) > 0
    THEN MinuteWindow * second - (t - Head(lim.request_times))
    ELSE IF /\ rate_limit.requests_per_second # 0
            /\ Cardinality({i \in 1..Len(lim.request_times) :
                                t - lim.request_times[i] < second})
                   >= rate_limit.requests_per_second
    THEN second
    ELSE 0

\* The wait of the service under test, in seconds.
ComputeWait(lim, t) ==
    WaitTime([requests_per_minute |-> RequestsPerMinute,
              requests_per_day |-> RequestsPerDay,
              requests_per_second |-> RequestsPerSecond], 1, lim, t)

\* A limiter with a per-second cap, as the "note" service has one, its day
\* cap out of reach; its clock counts tenths of a second.
MaxProbeSteps == 5
ProbeSecond == 10
ProbeRateLimit ==
    [requests_per_minute |-> 2, requests_per_day |-> 5000,
     requests_per_second |-> 1]

\* record_request at the probe's time.
ProbeRecordRequest ==
    /\ probe.steps < MaxProbeSteps
    /\ probe' = [probe EXCEPT !.request_times = Append(@, probe.t),
                              !.daily_count = @ + 1,
                              !.steps = @ + 1, !.pc = "recorded"]
    /\ UNCHANGED <<startupVars, collectorVars, storeVars, limiterVars,
                   evaluatorVars, programVars>>

\* 0.2 s, 0.5 s or 59 s pass.
ProbeTick ==
    /\ probe.steps < MaxProbeSteps
    /\ \E d \in {2, 5, 590} :
            probe' = [probe EXCEPT !.t = @ + d, !.steps = @ + 1,
                                  !.pc = "ticked"]
    /\ UNCHANGED <<startupVars, collectorVars, storeVars, limiterVars,
                   evaluatorVars, programVars>>

\* _wait_if_needed: the request times older than a minute are dropped (the
\* day does not change), then the wait is computed.
ProbeWaitIfNeeded ==
    /\ probe.steps < MaxProbeSteps
    /\ LET Recent(x) == probe.t - x <= MinuteWindow * ProbeSecond
           cleaned == [probe EXCEPT
                        !.request_times = SelectSeq(@, Recent)]
       IN probe' = [cleaned EXCEPT
                        !.wait_time = WaitTime(ProbeRateLimit, ProbeSecond,
                                               cleaned, probe.t),
                        !.steps = @ + 1, !.pc = "waited"]
    /\ UNCHANGED <<startupVars, collectorVars, storeVars, limiterVars,
                   evaluatorVars, programVars>>

\* _wait_if_needed: reset, clean, then the wait (0 when none is needed).
_wait_if_needed(lim, t) ==
    LET s == CleanOldRequests(ResetDailyCounterIfNeeded(lim, t), t)
    IN [lim |-> s, wait_time |-> ComputeWait(s, t)]

\* record_request
record_request(lim, t) ==
    [lim EXCEPT !.request_times = Append(@, t), !.daily_count = @ + 1]

Limiter == [request_times |-> request_times, daily_count |-> daily_count,
            last_reset_date |-> last_reset_date]

InitLimiterAt(t) ==
    /\ clock = t
    /\ request_times = <<>>
    /\ daily_count = 0
    /\ last_reset_date = LocalDate(clock)
    /\ callerPc = [c \in Callers |-> "idle"]
    /\ awaitOutcome = [c \in Callers |-> "none"]
    /\ admitted = <<>>
    /\ overlap = FALSE
    /\ ticks = 0

InitLimiter == \E t \in StartClocks : InitLimiterAt(t)

\* time.sleep(wait_time) / asyncio.sleep(wait_time) when wait_time is truthy:
\* the clock read after a sleep is later than the instant slept for.
AfterSleep(t, wait_time) == IF wait_time > 0 THEN t + wait_time + 1 ELSE t

\* The caller goes on to its external call once the admission returned.
Admit(c, r) ==
    /\ request_times' = r.lim.request_times
    /\ daily_count' = r.lim.daily_count
    /\ last_reset_date' = r.lim.last_reset_date
    /\ clock' = AfterSleep(clock, r.wait_time)
    /\ admitted' = Append(admitted, AfterSleep(clock, r.wait_time))
    /\ overlap' = (overlap \/ \E d \in Callers \ {c} : callerPc[d] = "admitted")
    /\ callerPc' = [callerPc EXCEPT ![c] = "admitted"]
    /\ awaitOutcome' = [awaitOutcome EXCEPT ![c] = "returned"]

\* wait_if_needed (synchronous): _wait_if_needed, then time.sleep(wait_time)
\* when it is truthy, then return.
LimiterWaitIfNeeded(c) ==
    /\ callerPc[c] = "idle"
    /\ Len(admitted) < MaxAdmissions
    /\ Admit(c, _wait_if_needed(Limiter, clock))
    /\ UNCHANGED <<probeVars, startupVars, collectorVars, ticks, storeVars, evaluatorVars, programVars>>

\* await_if_needed (asynchronous): "async with self._lock" comes first; with
\* _lock None it raises (TypeError) before _wait_if_needed is reached, and
\* the caller's except branch abandons the request.
LimiterAwaitIfNeeded(c) ==
    /\ callerPc[c] = "idle"
    /\ Len(admitted) < MaxAdmissions
    /\ IF LockIsNone
       THEN /\ awaitOutcome' = [awaitOutcome EXCEPT ![c] = "raised"]
            /\ UNCHANGED <<clock, request_times, daily_count, last_reset_date,
                           callerPc, admitted, overlap>>
       ELSE Admit(c, _wait_if_needed(Limiter, clock))
    /\ UNCHANGED <<probeVars, startupVars, collectorVars, ticks, storeVars, evaluatorVars, programVars>>

\* record_request, called by an admitted caller when its external call,
\* which took d seconds, has returned.
LimiterRecordRequest(c) ==
    /\ callerPc[c] = "admitted"
    /\ \E d \in CallDurations :
        LET lim == record_request(Limiter, clock + d)
        IN /\ clock' = clock + d
           /\ request_times' = lim.request_times
           /\ daily_count' = lim.daily_count
    /\ callerPc' = [callerPc EXCEPT ![c] = "idle"]
    /\ UNCHANGED <<probeVars, startupVars, collectorVars, last_reset_date, awaitOutcome, admitted, overlap, ticks,
                   storeVars, evaluatorVars, programVars>>

\* Time passes (an external call in flight, or the caller between items).
LimiterTick ==
    /\ ticks < MaxTicks
    /\ \E d \in TickSteps : clock' = clock + d
    /\ ticks' = ticks + 1
    /\ UNCHANGED <<probeVars, startupVars, collectorVars, request_times, daily_count, last_reset_date, callerPc,
                   awaitOutcome, admitted, overlap, storeVars, evaluatorVars,
                   programVars>>

(***************************************************************************)
(* ArticleEvaluator (services/evaluator.py)                                *)
(***************************************************************************)
PreviewLength == 200
MaxRetries == 3
RetryDelay == 2
RecentWindow == 20
SummaryPadLength == 14
DefaultSummaryLength == 37

NoResult == [ok |-> FALSE]

\* The fields of the JSON object in an LLM response.  A response is
\*   [json, fields, article_id, quality_score, originality_score,
\*    entertainment_score, total_score, ai_summary]
\* json: the content holds a parseable JSON object; fields: the keys present
\* in it; ai_summary: the summary text, kept as its length.
ScoreFields == {"quality_score", "originality_score", "entertainment_score"}

\* Variant: a missing originality_score gets the default of quality_score.
ValidateAndFixWithOneDefault(data) ==
    LET q == IF "quality_score" \in data.fields THEN data.quality_score ELSE 20
        o == IF "originality_score" \in data.fields
             THEN data.originality_score ELSE 20
        e == IF "entertainment_score" \in data.fields
             THEN data.entertainment_score ELSE 15
        s1 == IF "ai_summary" \notin data.fields THEN DefaultSummaryLength
              ELSE IF data.ai_summary < 10
                   THEN data.ai_summary + SummaryPadLength
                   ELSE data.ai_summary
        s2 == IF s1 > 300 THEN 297 + 3 ELSE s1
    IN [article_id |-> data.article_id, quality_score |-> q,
        originality_score |-> o, entertainment_score |-> e,
        ai_summary |-> s2, total_score |-> q + o + e]

\* Variant: a long summary is left as it is.
ValidateAndFixWithoutTruncation(data) ==
    LET q == IF "quality_score" \in data.fields THEN data.quality_score ELSE 20
        o == IF "originality_score" \in data.fields
             THEN data.originality_score ELSE 15
        e == IF "entertainment_score" \in data.fields
             THEN data.entertainment_score ELSE 15
        s1 == IF "ai_summary" \notin data.fields THEN DefaultSummaryLength
              ELSE IF data.ai_summary < 10
                   THEN data.ai_summary + SummaryPadLength
                   ELSE data.ai_summary
    IN [article_id |-> data.article_id, quality_score |-> q,
        originality_score |-> o, entertainment_score |-> e,
        ai_summary |-> s1, total_score |-> q + o + e]

\* Variant: every summary shorter than 20 characters is padded.
ValidateAndFixPaddingBelowTwenty(data) ==
    LET q == IF "quality_score" \in data.fields THEN data.quality_score ELSE 20
        o == IF "originality_score" \in data.fields
             THEN data.originality_score ELSE 15
        e == IF "entertainment_score" \in data.fields
             THEN data.entertainment_score ELSE 15
        s1 == IF "ai_summary" \notin data.fields THEN DefaultSummaryLength
              ELSE IF data.ai_summary < 20
                   THEN data.ai_summary + SummaryPadLength
                   ELSE data.ai_summary
        s2 == IF s1 > 300 THEN 297 + 3 ELSE s1
    IN [article_id |-> data.article_id, quality_score |-> q,
        originality_score |-> o, entertainment_score |-> e,
        ai_summary |-> s2, total_score |-> q + o + e]

\* _validate_and_fix_response_data: defaults for missing fields, padding of
\* a short summary, truncation of a long one ([:297] + "..."), and the total
\* computed from the components.
_validate_and_fix_response_data(data) ==
    LET q == IF "quality_score" \in data.fields THEN data.quality_score ELSE 20
        o == IF "originality_score" \in data.fields
             THEN data.originality_score ELSE 15
        e == IF "entertainment_score" \in data.fields
             THEN data.entertainment_score ELSE 15
        s1 == IF "ai_summary" \notin data.fields THEN DefaultSummaryLength
              ELSE IF data.ai_summary < 10
                   THEN data.ai_summary + SummaryPadLength
                   ELSE data.ai_summary
        s2 == IF s1 > 300 THEN 297 + 3 ELSE s1
    IN [article_id |-> data.article_id, quality_score |-> q,
        originality_score |-> o, entertainment_score |-> e,
        ai_summary |-> s2, total_score |-> q + o + e]

\* AIEvaluationResult(**data): the pydantic field constraints; a violation
\* raises.
AIEvaluationResultValid(d) ==
    /\ d.quality_score \in 0..40
    /\ d.originality_score \in 0..30
    /\ d.entertainment_score \in 0..30
    /\ d.total_score \in 0..100
    /\ d.ai_summary >= 10 /\ d.ai_summary <= 300

Clamp(lo, hi, x) == IF x < lo THEN lo ELSE IF x > hi THEN hi ELSE x

\* Variant: the article id of the response is kept.
ParseAiResponseKeepingResponseId(content, expected_article_id) ==
    IF ~content.json THEN NoResult
    ELSE LET data == _validate_and_fix_response_data(content)
         IN IF ~AIEvaluationResultValid(data) THEN NoResult
            ELSE [ok |-> TRUE, article_id |-> data.article_id,
                  quality_score |-> data.quality_score,
                  originality_score |-> data.originality_score,
                  entertainment_score |-> data.entertainment_score,
                  total_score |-> data.total_score,
                  ai_summary |-> data.ai_summary]

\* Variant: keeps the total the response claims instead of the recomputed
\* one.
ParseAiResponseTrustingTotal(content, expected_article_id) ==
    IF ~content.json THEN NoResult
    ELSE LET data == _validate_and_fix_response_data(
                        [content EXCEPT !.article_id = expected_article_id])
         IN IF ~AIEvaluationResultValid(data) THEN NoResult
            ELSE [ok |-> TRUE, article_id |-> data.article_id,
                  quality_score |-> data.quality_score,
                  originality_score |-> data.originality_score,
                  entertainment_score |-> data.entertainment_score,
                  total_score |-> content.total_score,
                  ai_summary |-> data.ai_summary]

\* _parse_ai_response: no JSON object -> None; the article id is replaced
\* by the expected one; validate-and-fix; AIEvaluationResult(**data) (an
\* exception here is caught and None returned); the range clamps on the
\* constructed result; the total recomputed from the components.
_parse_ai_response(content, expected_article_id) ==
    IF ~content.json THEN NoResult
    ELSE LET data == _validate_and_fix_response_data(
                        [content EXCEPT !.article_id = expected_article_id])
         IN IF ~AIEvaluationResultValid(data) THEN NoResult
            ELSE LET q == Clamp(0, 40, data.quality_score)
                     o == Clamp(0, 30, data.originality_score)
                     e == Clamp(0, 30, data.entertainment_score)
                 IN [ok |-> TRUE, article_id |-> data.article_id,
                     quality_score |-> q, originality_score |-> o,
                     entertainment_score |-> e, total_score |-> q + o + e,
                     ai_summary |-> data.ai_summary]

\* _call_groq_api / _call_groq_api_with_retry_settings: up to max_retries
\* attempts; an attempt that raises is retried, the first response that
\* arrives is parsed and its parse result (None included) is returned.
\* call = [failures, content]: the number of leading attempts that raise
\* and the content of the first response.
\* The sleeps are those between a failed attempt and the next one:
\* retry_delay * (2 ** attempt), none after the last attempt.
RetrySleeps(failed) == [k \in 1..failed |-> RetryDelay * 2 ^ (k - 1)]

\* Variant: range(max_retries + 1), one attempt too many.
CallGroqApiOneMoreAttempt(call, expected_article_id) ==
    IF call.failures >= MaxRetries + 1
    THEN [result |-> NoResult, requests |-> MaxRetries + 1,
          sleeps |-> RetrySleeps(MaxRetries)]
    ELSE [result |-> _parse_ai_response(call.content, expected_article_id),
          requests |-> call.failures + 1,
          sleeps |-> RetrySleeps(call.failures)]

_call_groq_api(call, expected_article_id) ==
    IF call.failures >= MaxRetries
    THEN [result |-> NoResult, requests |-> MaxRetries,
          sleeps |-> RetrySleeps(MaxRetries - 1)]
    ELSE [result |-> _parse_ai_response(call.content, expected_article_id),
          requests |-> call.failures + 1,
          sleeps |-> RetrySleeps(call.failures)]

\* f"{quality}/{originality}/{entertainment}"
ScorePattern(result) ==
    <<result.quality_score, result.originality_score, result.entertainment_score>>

\* The summary kept in the window: the first 50 characters plus "..." when
\* the summary is longer than 50.
SummaryPrefix(n) == IF n > 50 THEN 50 + 3 ELSE n

LastN(seq, n) ==
    IF Len(seq) > n THEN SubSeq(seq, Len(seq) - n + 1, Len(seq)) ELSE seq

PatternCount(recent, pattern) ==
    Cardinality({i \in 1..Len(recent) : recent[i].pattern = pattern})

\* Variant: asks for a retry on every repeated pattern (count > 1).
CheckForDuplicateScoresOnEveryRepeat(recent, result) ==
    LET entry == [article_id |-> result.article_id,
                  pattern |-> ScorePattern(result),
                  total_score |-> result.total_score,
                  summary |-> SummaryPrefix(result.ai_summary)]
        window == LastN(Append(recent, entry), RecentWindow)
        pattern_count == PatternCount(window, ScorePattern(result))
    IN [recent |-> window, pattern_count |-> pattern_count,
        retry |-> pattern_count > 1]

\* _check_for_duplicate_scores: append, keep the last 20, count the pattern,
\* and ask for a retry when the count is 2.
_check_for_duplicate_scores(recent, result) ==
    LET entry == [article_id |-> result.article_id,
                  pattern |-> ScorePattern(result),
                  total_score |-> result.total_score,
                  summary |-> SummaryPrefix(result.ai_summary)]
        window == LastN(Append(recent, entry), RecentWindow)
        pattern_count == PatternCount(window, ScorePattern(result))
    IN [recent |-> window, pattern_count |-> pattern_count,
        retry |-> (pattern_count > 1 /\ pattern_count = 2)]

NoPattern == <<>>
NoMetadata == [present |-> FALSE]

\* AIEvaluationResult.to_evaluation
to_evaluation(result, id, is_retry, retry_reason, evaluation_metadata) ==
    [ok |-> TRUE, article_id |-> id,
     quality_score |-> result.quality_score,
     originality_score |-> result.originality_score,
     entertainment_score |-> result.entertainment_score,
     total_score |-> result.total_score,
     ai_summary |-> result.ai_summary,
     is_retry_evaluation |-> is_retry,
     retry_reason |-> retry_reason,
     evaluation_metadata |-> evaluation_metadata]

\* _call_groq_api_with_retry_settings: the same loop as _call_groq_api, with
\* a higher temperature.
_call_groq_api_with_retry_settings(call, expected_article_id) ==
    _call_groq_api(call, expected_article_id)

\* _retry_evaluation_with_alternative_prompt: one call with the retry
\* prompt; on a parsed result the retry evaluation with its metadata and
\* reason, else None.
_retry_evaluation_with_alternative_prompt(id, original_result, call) ==
    LET r == _call_groq_api_with_retry_settings(call, id)
    IN IF r.result.ok
       THEN [evaluation |->
                to_evaluation(r.result, id, TRUE, ScorePattern(original_result),
                    [present |-> TRUE,
                     original_scores |-> <<original_result.quality_score,
                                           original_result.originality_score,
                                           original_result.entertainment_score,
                                           original_result.total_score>>,
                     retry_scores |-> <<r.result.quality_score,
                                        r.result.originality_score,
                                        r.result.entertainment_score,
                                        r.result.total_score>>,
                     score_pattern_original |-> ScorePattern(original_result),
                     score_pattern_retry |-> ScorePattern(r.result)]),
             requests |-> r.requests]
       ELSE [evaluation |-> NoResult, requests |-> r.requests]

\* Variant: a failed retry round gives the article up instead of falling
\* back to the original result.
EvaluateSingleArticleWithoutFallback(id, recent, call1, call2) ==
    LET first == _call_groq_api(call1, id)
        dup == _check_for_duplicate_scores(recent, first.result)
        retry == _retry_evaluation_with_alternative_prompt(id, first.result, call2)
    IN IF ~first.result.ok
       THEN [evaluation |-> NoResult, recent |-> recent, terminal |-> "FAILED",
             original |-> NoResult, requests |-> first.requests,
             retry_rounds |-> 0]
       ELSE IF ~dup.retry
       THEN [evaluation |->
                to_evaluation(first.result, id, FALSE, NoPattern, NoMetadata),
             recent |-> dup.recent, terminal |-> "ACCEPTED",
             original |-> first.result, requests |-> first.requests,
             retry_rounds |-> 0]
       ELSE IF retry.evaluation.ok
       THEN [evaluation |-> retry.evaluation, recent |-> dup.recent,
             terminal |-> "RETRY_ACCEPTED", original |-> first.result,
             requests |-> first.requests + retry.requests, retry_rounds |-> 1]
       ELSE [evaluation |-> NoResult, recent |-> dup.recent,
             terminal |-> "FAILED", original |-> first.result,
             requests |-> first.requests + retry.requests, retry_rounds |-> 1]

\* _evaluate_single_article: first call; when it parsed, the duplicate check
\* and, on a duplicate, the retry round; the retry evaluation when there is
\* one, else the original result.
_evaluate_single_article(id, recent, call1, call2) ==
    LET first == _call_groq_api(call1, id)
    IN IF ~first.result.ok
       THEN [evaluation |-> NoResult, recent |-> recent, terminal |-> "FAILED",
             original |-> NoResult, requests |-> first.requests,
             retry_rounds |-> 0]
       ELSE LET dup == _check_for_duplicate_scores(recent, first.result)
            IN IF ~dup.retry
               THEN [evaluation |->
                        to_evaluation(first.result, id, FALSE, NoPattern, NoMetadata),
                     recent |-> dup.recent, terminal |-> "ACCEPTED",
                     original |-> first.result, requests |-> first.requests,
                     retry_rounds |-> 0]
               ELSE LET retry == _retry_evaluation_with_alternative_prompt(
                                    id, first.result, call2)
                    IN IF retry.evaluation.ok
                       THEN [evaluation |-> retry.evaluation,
                             recent |-> dup.recent,
                             terminal |-> "RETRY_ACCEPTED",
                             original |-> first.result,
                             requests |-> first.requests + retry.requests,
                             retry_rounds |-> 1]
                       ELSE [evaluation |->
                                to_evaluation(first.result, id, FALSE,
                                              NoPattern, NoMetadata),
                             recent |-> dup.recent,
                             terminal |-> "FALLBACK_ACCEPTED",
                             original |-> first.result,
                             requests |-> first.requests + retry.requests,
                             retry_rounds |-> 1]

(***************************************************************************)
(* LLM call outcomes                                                       *)
(***************************************************************************)
AllFields == ScoreFields \cup {"ai_summary", "article_id"}

NoJsonContent ==
    [json |-> FALSE, fields |-> {}, article_id |-> "", quality_score |-> 0,
     originality_score |-> 0, entertainment_score |-> 0, total_score |-> 0,
     ai_summary |-> 0]

JsonContent(fields, q, o, e, total, summary) ==
    [json |-> TRUE, fields |-> fields, article_id |-> "other",
     quality_score |-> q, originality_score |-> o, entertainment_score |-> e,
     total_score |-> total, ai_summary |-> summary]

AllAttemptsFail == [failures |-> MaxRetries, content |-> NoJsonContent]

CallsWith(contents, failureCounts) ==
    {AllAttemptsFail}
        \cup {[failures |-> f, content |-> c] : f \in failureCounts, c \in contents}

(***************************************************************************)
(* SpecDetector: _check_for_duplicate_scores called result after result    *)
(* (as scripts/test_retry_evaluation.py does)                              *)
(***************************************************************************)
MaxChecks == 22
MaxRare == 3

ParsedResult(q, o, e, summary) ==
    [ok |-> TRUE, article_id |-> "a", quality_score |-> q,
     originality_score |-> o, entertainment_score |-> e,
     total_score |-> q + o + e, ai_summary |-> summary]

CommonResult == ParsedResult(20, 15, 15, 40)
RareResult == ParsedResult(30, 20, 20, 40)

Occurrences(seq, x) == Cardinality({i \in 1..Len(seq) : seq[i] = x})

InitEvaluator ==
    /\ recent_evaluations = <<>>
    /\ checked = <<>>
    /\ evalLog = [op |-> "init"]

(***************************************************************************)
(* NoteScraper._fetch_api_article_list (services/scraper.py)               *)
(***************************************************************************)
MaxPages == 5
RateLimitWait == 30
ServerErrorWait == 10
RequestDelay == 1

\* What a list request can meet: session.get or response.json() raising, or
\* a response with a status code and, for 200, isLast and a number of notes,
\* old of them published before the threshold of old_article_threshold_days.
ListResponses ==
    {[raises |-> TRUE, status |-> 0, isLast |-> FALSE, notes |-> 0, old |-> 0],
     [raises |-> FALSE, status |-> 200, isLast |-> FALSE, notes |-> 1, old |-> 0],
     [raises |-> FALSE, status |-> 200, isLast |-> FALSE, notes |-> 2, old |-> 1],
     [raises |-> FALSE, status |-> 200, isLast |-> TRUE, notes |-> 1, old |-> 0],
     [raises |-> FALSE, status |-> 429, isLast |-> FALSE, notes |-> 0, old |-> 0],
     [raises |-> FALSE, status |-> 404, isLast |-> FALSE, notes |-> 0, old |-> 0],
     [raises |-> FALSE, status |-> 503, isLast |-> FALSE, notes |-> 0, old |-> 0]}

\* The request of one loop iteration, as the history keeps it.
Requested(c, response) ==
    Append(c.requests, [page |-> c.page, status |-> response.status,
                        raises |-> response.raises,
                        isLast |-> response.isLast, old |-> response.old])

\* break, or the end of the loop body at the last page: the list is
\* returned.
ReturnArticles(c, response, notes, sleep) ==
    [pc |-> "done", page |-> c.page, articles |-> c.articles + notes,
     requests |-> Requested(c, response),
     sleeps |-> IF sleep > 0 THEN Append(c.sleeps, sleep) ELSE c.sleeps]

\* continue, or the end of the loop body: after the sleep the for loop
\* takes the next page of range(1, max_pages + 1).
NextPage(c, response, notes, sleep) ==
    IF c.page = MaxPages THEN ReturnArticles(c, response, notes, sleep)
    ELSE [pc |-> "paging", page |-> c.page + 1, articles |-> c.articles + notes,
          requests |-> Requested(c, response),
          sleeps |-> Append(c.sleeps, sleep)]

\* Variant: isLast is not looked at.
FetchApiPageIgnoringIsLast(c, response) ==
    IF response.raises THEN ReturnArticles(c, response, 0, 0)
    ELSE IF response.status = 429 THEN NextPage(c, response, 0, RateLimitWait)
    ELSE IF response.status # 200
         THEN IF response.status >= 500
              THEN NextPage(c, response, 0, ServerErrorWait)
              ELSE ReturnArticles(c, response, 0, 0)
    ELSE NextPage(c, response, response.notes, RequestDelay)

\* One iteration of the loop of _fetch_api_article_list: the request; 429:
\* sleep 30 and continue; another status than 200: sleep 10 and continue
\* when >= 500, break otherwise; 200: the notes are added, break when
\* isLast, else sleep request_delay_seconds; an exception: break.
fetch_api_page(c, response) ==
    IF response.raises THEN ReturnArticles(c, response, 0, 0)
    ELSE IF response.status = 429 THEN NextPage(c, response, 0, RateLimitWait)
    ELSE IF response.status # 200
         THEN IF response.status >= 500
              THEN NextPage(c, response, 0, ServerErrorWait)
              ELSE ReturnArticles(c, response, 0, 0)
    ELSE IF response.isLast THEN ReturnArticles(c, response, response.notes, 0)
    ELSE NextPage(c, response, response.notes, RequestDelay)

\* _fetch_api_article_list is called for a category: articles = [], the
\* loop starts at page 1.
CollectorStart ==
    /\ collector.pc = "idle"
    /\ collector' = [collector EXCEPT !.pc = "paging", !.page = 1]
    /\ UNCHANGED <<probeVars, startupVars, storeVars, limiterVars, evaluatorVars, programVars>>

CollectorFetchPage ==
    /\ collector.pc = "paging"
    /\ \E response \in ListResponses :
            collector' = fetch_api_page(collector, response)
    /\ UNCHANGED <<probeVars, startupVars, storeVars, limiterVars, evaluatorVars, programVars>>

(***************************************************************************)
(* validate_required_env_vars (config/config.py) and the start of main()   *)
(***************************************************************************)
optional_twitter_vars ==
    {"TWITTER_API_KEY", "TWITTER_API_SECRET", "TWITTER_ACCESS_TOKEN",
     "TWITTER_ACCESS_TOKEN_SECRET"}

\* The credentials Config.has_twitter_credentials asks for.
twitter_credentials == optional_twitter_vars \cup {"TWITTER_BEARER_TOKEN"}

\* The variables config.py reads with os.getenv for the services; an
\* environment env tells for each whether it has a non-empty value.
EnvVars == {"GROQ_API_KEY"} \cup twitter_credentials

\* missing_vars of validate_required_env_vars: the required variable
\* GROQ_API_KEY when without a value and, when any but not all of
\* optional_twitter_vars have one, those of them without.
missing_vars(env) ==
    {v \in {"GROQ_API_KEY"} : ~env[v]}
        \cup (IF (\E v \in optional_twitter_vars : env[v])
                  /\ ~(\A v \in optional_twitter_vars : env[v])
               THEN {v \in optional_twitter_vars : ~env[v]}
               ELSE {})

\* TRUE when validate_required_env_vars returns, FALSE when it raises
\* ValueError.
validate_required_env_vars(env) == missing_vars(env) = {}

\* The process starts: config.py reads the environment at import.
LoadEnvironment ==
    /\ startup.pc = "shell"
    /\ \E env \in [EnvVars -> BOOLEAN] :
            startup' = [pc |-> "main", env |-> env, run |-> <<>>]
    /\ UNCHANGED <<probeVars, collectorVars, storeVars, limiterVars, evaluatorVars,
                   programVars>>

\* main() constructs ImprovedDailyBatchProcessor; __init__ validates the
\* configuration and re-raises, and main() then exits with status 1.
ConstructProcessor ==
    /\ startup.pc = "main"
    /\ startup' = [startup EXCEPT !.pc =
                        IF validate_required_env_vars(startup.env)
                        THEN "constructed" ELSE "exit 1"]
    /\ UNCHANGED <<probeVars, collectorVars, storeVars, limiterVars, evaluatorVars,
                   programVars>>

\* main() calls processor.run_daily_batch().
RunDailyBatch ==
    /\ startup.pc = "constructed"
    /\ startup' = [startup EXCEPT !.pc = "run_daily_batch"]
    /\ UNCHANGED <<probeVars, collectorVars, storeVars, limiterVars, evaluatorVars,
                   programVars>>

\* What a full run can meet: the body of
\* _collect_and_evaluate_with_references raising or counting evaluations,
\* and json_generator.generate_all_json_files succeeding or not (a raise is
\* turned into False by _generate_json_files).
RunInputs ==
    [raised : BOOLEAN, evaluations_count : {0, 1, 2}, json_success : BOOLEAN]

\* run_daily_batch: evaluated_count is what
\* _collect_and_evaluate_with_references returns (0 when its body raised);
\* 0 returns True at once; otherwise _generate_json_files is called and its
\* result decides.  invoked tells whether the publisher was called.
run_daily_batch(in) ==
    LET evaluated_count == IF in.raised THEN 0 ELSE in.evaluations_count
    IN IF evaluated_count = 0 THEN [success |-> TRUE, invoked |-> FALSE]
       ELSE [success |-> in.json_success, invoked |-> TRUE]

\* run_daily_batch returns and main() exits: 0 on success, 1 otherwise.
FinishDailyBatch ==
    /\ startup.pc = "run_daily_batch"
    /\ \E in \in RunInputs :
            startup' = [startup EXCEPT
                !.pc = IF run_daily_batch(in).success THEN "exit 0"
                       ELSE "exit 1",
                !.run = <<[in |-> in,
                           invoked |-> run_daily_batch(in).invoked]>>]
    /\ UNCHANGED <<probeVars, collectorVars, storeVars, limiterVars, evaluatorVars,
                   programVars>>

InitProgram ==
    /\ probe = [pc |-> "new", t |-> 0, request_times |-> <<>>,
                daily_count |-> 0, wait_time |-> 0, steps |-> 0]
    /\ startup = [pc |-> "shell", env |-> [v \in EnvVars |-> FALSE],
                  run |-> <<>>]
    /\ collector = [pc |-> "idle", page |-> 0, articles |-> 0,
                    requests |-> <<>>, sleeps |-> <<>>]
    /\ pc = "idle"
    /\ runNo = 0
    /\ queue = <<>>
    /\ now = 0
    /\ sessionReady = FALSE
    /\ runLog = [run |-> 0, source |-> {}, prevSource |-> {}, fetched |-> {},
                 processedBefore |-> {}, complete |-> FALSE, limit |-> <<>>,
                 prevComplete |-> FALSE, articleWrites |-> 0,
                 evaluationWrites |-> 0, fetchOrder |-> <<>>,
                 item |-> [id |-> <<>>, steps |-> <<>>, paid |-> FALSE,
                           body |-> 0]]

DetectorCheck ==
    /\ Len(checked) < MaxChecks
    /\ \E result \in {CommonResult, RareResult} :
        /\ result = RareResult =>
                Occurrences(checked, ScorePattern(RareResult)) < MaxRare
        /\ LET r == _check_for_duplicate_scores(recent_evaluations, result)
           IN /\ recent_evaluations' = r.recent
              /\ checked' = Append(checked, ScorePattern(result))
              /\ evalLog' = [op |-> "check", retry |-> r.retry]
    /\ UNCHANGED <<probeVars, startupVars, collectorVars, storeVars, limiterVars, programVars>>

InitDetector ==
    InitStores /\ InitLimiterAt(0) /\ InitEvaluator /\ InitProgram

NextDetector == DetectorCheck

SpecDetector == InitDetector /\ [][NextDetector]_vars

\* C7: _check_for_duplicate_scores asks for a retry exactly when the pattern
\* of the result it was just given occurs exactly twice among the last 20
\* results handed to it (that result included): never on a first occurrence
\* in that window, and not on a third or later one.
InLast20(i) == i > Len(checked) - 20

OccurrencesInLast20 ==
    Cardinality({i \in 1..Len(checked) :
                    InLast20(i) /\ checked[i] = checked[Len(checked)]})

RetryExactlyOnSecondOccurrence ==
    evalLog.op = "check" => (evalLog.retry <=> OccurrencesInLast20 = 2)

\* A retry is signalled for a pattern whose third occurrence overall this
\* is: the first one has left the window of 20.
RetryAfterEvictionWitness ==
    /\ evalLog.op = "check"
    /\ evalLog.retry
    /\ Occurrences(checked, checked[Len(checked)]) >= 3

NoRetryOnThirdWitness ==
    /\ evalLog.op = "check"
    /\ ~evalLog.retry
    /\ OccurrencesInLast20 >= 3

(***************************************************************************)
(* BatchEvaluator.evaluate_batch (scripts/batch_evaluation.py): evaluates  *)
(* the unevaluated articles through _evaluate_single_article               *)
(***************************************************************************)
MaxRuns == 2

\* evaluate_batch up to its loop: the evaluator of this run starts with an
\* empty window; the unevaluated articles are read once.
ScriptStart ==
    /\ pc = "idle"
    /\ runNo < MaxRuns
    /\ get_unevaluated_articles(articles) # {}
    /\ pc' = "script"
    /\ runNo' = runNo + 1
    /\ queue' = get_unevaluated_articles(articles)
    /\ recent_evaluations' = <<>>
    /\ UNCHANGED <<probeVars, startupVars, collectorVars, storeVars, limiterVars, checked, evalLog, now, sessionReady,
                   runLog>>

\* The calls of the retry round are drawn only when a retry round is run.
RetryCalls(id, recent, call1, calls) ==
    LET first == _call_groq_api(call1, id)
    IN IF first.result.ok /\ _check_for_duplicate_scores(recent, first.result).retry
       THEN calls ELSE {AllAttemptsFail}

\* What the history keeps of one evaluation: the outcome of
\* _evaluate_single_article, the responses of the first call and of the
\* retry round, the total the accepted response claimed, and whether and
\* where the evaluation was written.
EvaluationLog(id, r, first, responses, claimed, saved, rowsBefore) ==
    [op |-> "evaluate", article_id |-> id, terminal |-> r.terminal,
     failures |-> first[1], first_call |-> first[2],
     evaluation |-> r.evaluation, original |-> r.original,
     requests |-> r.requests, retry_rounds |-> r.retry_rounds,
     response |-> responses[1], retry_response |-> responses[2],
     claimed_total |-> claimed, saved |-> saved, rows_before |-> rowsBefore]

ClaimedTotal(r, call1, call2) ==
    IF r.terminal = "RETRY_ACCEPTED" THEN call2.content.total_score
    ELSE call1.content.total_score

\* One iteration of the loop of evaluate_batch: _evaluate_single_article,
\* then save_evaluation, then (when saved) article.is_evaluated = True and
\* save_article.
ScriptEvaluateArticle(calls) ==
    /\ pc = "script"
    /\ Len(evaluations) < MaxRows
    /\ \E id \in queue, call1 \in calls :
       \E call2 \in RetryCalls(id, recent_evaluations, call1, calls) :
       \E evalOk \in BOOLEAN, artOk \in BOOLEAN :
        LET r == _evaluate_single_article(id, recent_evaluations, call1, call2)
            s == IF r.evaluation.ok
                 THEN save_evaluation(evaluations, r.evaluation, evalOk)
                 ELSE [rows |-> evaluations, saved |-> FALSE]
            article == [id |-> id, title |-> articles[id].title,
                        category |-> articles[id].category,
                        content_preview |-> articles[id].content_preview,
                        is_evaluated |-> TRUE]
        IN /\ recent_evaluations' = r.recent
           /\ evaluations' = s.rows
           /\ articles' = IF s.saved
                          THEN save_article(articles, article, artOk).store
                          ELSE articles
           /\ evalLog' = EvaluationLog(id, r,
                                       <<call1.failures,
                                         _call_groq_api(call1, id)>>,
                                       <<call1.content, call2.content>>,
                                       ClaimedTotal(r, call1, call2),
                                       s.saved, Len(evaluations))
           /\ queue' = queue \ {id}
    /\ UNCHANGED <<probeVars, startupVars, collectorVars, refs, storeLog, limiterVars, checked, pc, runNo, now,
                   sessionReady, runLog>>

ScriptFinish ==
    /\ pc = "script"
    /\ queue = {} \/ Len(evaluations) >= MaxRows
    /\ pc' = "idle"
    /\ queue' = <<>>
    /\ UNCHANGED <<probeVars, startupVars, collectorVars, storeVars, limiterVars, evaluatorVars, runNo, now,
                   sessionReady, runLog>>

(***************************************************************************)
(* SpecEvaluator: evaluate_batch runs over articles the batch has saved    *)
(***************************************************************************)
\* Responses: a plain one, one whose claimed total is wrong, whose summary
\* is short and which holds no article id, one with another pattern, one
\* with a score out of range, and one without JSON.  The article id of a
\* response that holds one is never the id asked for.
EvaluatorContents ==
    {NoJsonContent,
     JsonContent(AllFields, 20, 15, 15, 50, 40),
     JsonContent(AllFields \ {"article_id"}, 20, 15, 15, 99, 5),
     JsonContent(AllFields, 30, 20, 20, 70, 40),
     JsonContent(AllFields, 41, 15, 15, 71, 40)}

EvaluatorCalls == CallsWith(EvaluatorContents, {0, 1})

SavedArticle(id) ==
    [title |-> "t1", category |-> "music", content_preview |-> PreviewLength,
     is_evaluated |-> FALSE]

InitEvaluatorSpec ==
    /\ refs = [id \in RefIds |->
                [category |-> "music", title |-> "t1", collected_at |-> 1,
                 is_processed |-> FALSE]]
    /\ articles = [id \in ArticleIds |-> SavedArticle(id)]
    /\ evaluations = <<>>
    /\ storeLog = [op |-> "init"]
    /\ InitLimiterAt(0)
    /\ InitEvaluator
    /\ InitProgram

ScriptEvaluate == ScriptEvaluateArticle(EvaluatorCalls)

NextEvaluator == ScriptStart \/ ScriptEvaluate \/ ScriptFinish

SpecEvaluator == InitEvaluatorSpec /\ [][NextEvaluator]_vars

TerminalStates == {"ACCEPTED", "RETRY_ACCEPTED", "FALLBACK_ACCEPTED"}

SameScores(a, b) ==
    /\ a.quality_score = b.quality_score
    /\ a.originality_score = b.originality_score
    /\ a.entertainment_score = b.entertainment_score
    /\ a.total_score = b.total_score
    /\ a.ai_summary = b.ai_summary

LastRow == evaluations[Len(evaluations)]

\* C8 (as stated): every evaluation whose first LLM call yields a parsed
\* result ends in ACCEPTED, RETRY_ACCEPTED or FALLBACK_ACCEPTED and exactly
\* one evaluation row is committed for it.
ParsedFirstCallCommitsExactlyOneRow ==
    (evalLog.op = "evaluate" /\ evalLog.original.ok) =>
        /\ evalLog.terminal \in TerminalStates
        /\ Len(evaluations) = evalLog.rows_before + 1

\* C8 (amended): every evaluation whose first LLM call yields a parsed
\* result ends in exactly one of ACCEPTED, RETRY_ACCEPTED, FALLBACK_ACCEPTED
\* with one Evaluation returned, after at most one retry round; a failed
\* retry round returns the original result; exactly one row is committed for
\* it when the write succeeds and none when the write fails.
ParsedFirstCallEndsInOneTerminalState ==
    (evalLog.op = "evaluate" /\ evalLog.original.ok) =>
        /\ evalLog.terminal \in TerminalStates
        /\ evalLog.evaluation.ok
        /\ evalLog.evaluation.article_id = evalLog.article_id
        /\ evalLog.retry_rounds <= 1
        /\ evalLog.terminal = "ACCEPTED" => evalLog.retry_rounds = 0
        /\ evalLog.terminal = "FALLBACK_ACCEPTED" =>
                /\ SameScores(evalLog.evaluation, evalLog.original)
                /\ ~evalLog.evaluation.is_retry_evaluation
        /\ Len(evaluations) = evalLog.rows_before + (IF evalLog.saved THEN 1 ELSE 0)
        /\ evalLog.saved =>
                /\ LastRow.article_id = evalLog.article_id
                /\ SameScores(LastRow, evalLog.evaluation)

\* A retry round failed and the original result was committed.
FallbackCommittedWitness ==
    /\ evalLog.op = "evaluate"
    /\ evalLog.terminal = "FALLBACK_ACCEPTED"
    /\ evalLog.saved

\* C9: when duplicate detection triggers a retry and the retry call
\* succeeds, the evaluation read back from the evaluation store has
\* is_retry_evaluation = true, a retry_reason naming the original pattern and
\* evaluation_metadata with the original and retry scores and patterns.
RetryEvaluationReadBackAsRetry ==
    (evalLog.op = "evaluate" /\ evalLog.terminal = "RETRY_ACCEPTED"
                             /\ evalLog.saved) =>
        LET e == _row_to_evaluation(evaluations, Len(evaluations))
        IN /\ e.is_retry_evaluation
           /\ e.retry_reason = ScorePattern(evalLog.original)
           /\ e.evaluation_metadata.present

\* C10: every persisted evaluation has total_score = quality + originality
\* + entertainment, with quality in 0..40, originality in 0..30 and
\* entertainment in 0..30, whatever total the response claimed.
PersistedScoresConsistent ==
    \A i \in 1..Len(evaluations) :
        LET e == _row_to_evaluation(evaluations, i)
        IN /\ e.total_score
                = e.quality_score + e.originality_score + e.entertainment_score
           /\ e.quality_score \in 0..40
           /\ e.originality_score \in 0..30
           /\ e.entertainment_score \in 0..30

\* An evaluation was persisted whose response claimed another total.
WrongClaimedTotalPersistedWitness ==
    /\ evalLog.op = "evaluate"
    /\ evalLog.saved
    /\ evalLog.claimed_total # LastRow.total_score

\* C14: every evaluation the evaluator returns (original, retry or
\* fallback) carries the article id it was asked to evaluate, whatever
\* article id the response holds: one that differs or none at all.
ReturnedEvaluationCarriesRequestedId ==
    evalLog.op = "evaluate" =>
        /\ evalLog.original.ok
                => evalLog.original.article_id = evalLog.article_id
        /\ evalLog.evaluation.ok
                => evalLog.evaluation.article_id = evalLog.article_id
        /\ evalLog.saved => LastRow.article_id = evalLog.article_id

\* A retry evaluation was returned and saved whose first response held
\* another article id and whose retry response held none.
RetryWithoutArticleIdWitness ==
    /\ evalLog.op = "evaluate"
    /\ evalLog.terminal = "RETRY_ACCEPTED"
    /\ "article_id" \in evalLog.response.fields
    /\ evalLog.response.article_id # evalLog.article_id
    /\ "article_id" \notin evalLog.retry_response.fields
    /\ evalLog.saved
    /\ LastRow.article_id = evalLog.article_id

(***************************************************************************)
(* SpecResponses: evaluate_batch runs over one saved article, the LLM      *)
(* answering with any of a wide set of responses                           *)
(***************************************************************************)
SummaryLengths == {0, 9, 10, 300, 301}
QualityScores == {-1, 0, 40, 41}
OtherScores == {-1, 0, 30, 31}

\* Responses: no JSON; each summary length; each subset of the four result
\* fields missing; each score at and beyond its limits; the response of
\* test_evaluator_out_of_range_scores.
ResponseContents ==
    {NoJsonContent}
        \cup {JsonContent(AllFields, 20, 15, 15, 50, n) : n \in SummaryLengths}
        \cup {JsonContent(fields \cup {"article_id"}, 30, 20, 20, 70, 40) :
                    fields \in SUBSET (ScoreFields \cup {"ai_summary"})}
        \cup {JsonContent(AllFields, q, 15, 15, q + 30, 40) : q \in QualityScores}
        \cup {JsonContent(AllFields, 20, o, 15, o + 35, 40) : o \in OtherScores}
        \cup {JsonContent(AllFields, 20, 15, e, e + 35, 40) : e \in OtherScores}
        \cup {JsonContent(AllFields, 50, 40, 35, 125, 40)}

ResponseCalls == CallsWith(ResponseContents, 0..(MaxRetries - 1))

InitResponses ==
    /\ refs = [id \in {<<"k1", "u1">>} |->
                [category |-> "music", title |-> "t1", collected_at |-> 1,
                 is_processed |-> FALSE]]
    /\ articles = [id \in {article_id([key |-> "k1", urlname |-> "u1"])} |->
                    SavedArticle(id)]
    /\ evaluations = <<>>
    /\ storeLog = [op |-> "init"]
    /\ InitLimiterAt(0)
    /\ InitEvaluator
    /\ InitProgram

ScriptEvaluateResponse == ScriptEvaluateArticle(ResponseCalls)

NextResponses == ScriptStart \/ ScriptEvaluateResponse \/ ScriptFinish

SpecResponses == InitResponses /\ [][NextResponses]_vars

\* Every score the response holds is within its range.
PresentScoresInRange(content) ==
    /\ "quality_score" \in content.fields => content.quality_score \in 0..40
    /\ "originality_score" \in content.fields
            => content.originality_score \in 0..30
    /\ "entertainment_score" \in content.fields
            => content.entertainment_score \in 0..30

\* The first call of the last evaluation got a JSON response.
JsonResponseEvaluated ==
    /\ evalLog.op = "evaluate"
    /\ evalLog.requests = 1
    /\ evalLog.response.json

\* C11: every persisted evaluation has an ai_summary of 10 to 300
\* characters whatever the length of the summary in the response: a summary
\* shorter than 10 (the empty one included) is padded to at least 10, one
\* longer than 300 is cut to at most 300, and one of 10 to 300 characters
\* (exactly 10 and exactly 300 included) is kept.
PersistedSummaryLengthWithinBounds ==
    /\ \A i \in 1..Len(evaluations) :
            _row_to_evaluation(evaluations, i).ai_summary \in 10..300
    /\ (JsonResponseEvaluated /\ PresentScoresInRange(evalLog.response)) =>
            /\ evalLog.evaluation.ok
            /\ evalLog.evaluation.ai_summary \in 10..300
            /\ ("ai_summary" \in evalLog.response.fields
                    /\ evalLog.response.ai_summary \in 10..300)
                    => evalLog.evaluation.ai_summary = evalLog.response.ai_summary
            /\ evalLog.saved
                    => LastRow.ai_summary = evalLog.evaluation.ai_summary

\* An evaluation was persisted whose response held a summary longer than
\* 300 characters.
LongSummaryPersistedWitness ==
    /\ JsonResponseEvaluated
    /\ "ai_summary" \in evalLog.response.fields
    /\ evalLog.response.ai_summary > 300
    /\ evalLog.saved
    /\ LastRow.ai_summary = 300

\* C12: when the response holds a score outside its range (quality 0..40,
\* originality 0..30, entertainment 0..30) the parser still returns a
\* result, with each score clamped into its range and the total recomputed
\* from the clamped scores.
OutOfRangeScoresAreClamped ==
    (JsonResponseEvaluated /\ ~PresentScoresInRange(evalLog.response)
                           /\ ScoreFields \subseteq evalLog.response.fields) =>
        /\ evalLog.original.ok
        /\ evalLog.original.quality_score
                = Clamp(0, 40, evalLog.response.quality_score)
        /\ evalLog.original.originality_score
                = Clamp(0, 30, evalLog.response.originality_score)
        /\ evalLog.original.entertainment_score
                = Clamp(0, 30, evalLog.response.entertainment_score)
        /\ evalLog.original.total_score
                = evalLog.original.quality_score
                    + evalLog.original.originality_score
                    + evalLog.original.entertainment_score

\* The JSON text of a structured result: every field present with the
\* result's value.
SerialisedResult(r) ==
    [json |-> TRUE, fields |-> AllFields, article_id |-> r.article_id,
     quality_score |-> r.quality_score,
     originality_score |-> r.originality_score,
     entertainment_score |-> r.entertainment_score,
     total_score |-> r.total_score, ai_summary |-> r.ai_summary]

\* C33: parser idempotence: the structured result of _parse_ai_response,
\* serialised and parsed again with the same expected article id, comes
\* back with identical scores, total, article id and summary; nothing is
\* padded, truncated, clamped or defaulted the second time.
ReparsedResultIsIdentical ==
    (JsonResponseEvaluated /\ evalLog.original.ok) =>
        _parse_ai_response(SerialisedResult(evalLog.original),
                           evalLog.article_id) = evalLog.original

\* A response with an empty summary and another article id was parsed: the
\* result carries the padded summary and the expected id.
PaddedResultReparsedWitness ==
    /\ JsonResponseEvaluated
    /\ evalLog.response.ai_summary = 0
    /\ "ai_summary" \in evalLog.response.fields
    /\ evalLog.original.ok
    /\ evalLog.original.ai_summary = SummaryPadLength
    /\ evalLog.original.article_id # evalLog.response.article_id

\* C13: a response missing any subset of quality_score, originality_score,
\* entertainment_score and ai_summary gets the defaults (quality 20,
\* originality 15, entertainment 15, the placeholder summary) for the
\* missing fields, the fields it holds are kept, and the parser returns a
\* valid result whose total is quality + originality + entertainment.
MissingFieldsGetDefaults ==
    (JsonResponseEvaluated /\ PresentScoresInRange(evalLog.response)) =>
        LET response == evalLog.response
            result == evalLog.original
        IN /\ result.ok
           /\ AIEvaluationResultValid(result)
           /\ result.quality_score
                = IF "quality_score" \in response.fields
                  THEN response.quality_score ELSE 20
           /\ result.originality_score
                = IF "originality_score" \in response.fields
                  THEN response.originality_score ELSE 15
           /\ result.entertainment_score
                = IF "entertainment_score" \in response.fields
                  THEN response.entertainment_score ELSE 15
           /\ "ai_summary" \notin response.fields
                => result.ai_summary = DefaultSummaryLength
           /\ result.total_score
                = result.quality_score + result.originality_score
                    + result.entertainment_score

\* The response of test_evaluator_missing_required_fields, holding the
\* article id only, was parsed into the defaults.
AllFieldsMissingWitness ==
    /\ JsonResponseEvaluated
    /\ evalLog.response.fields = {"article_id"}
    /\ evalLog.original.ok
    /\ ScorePattern(evalLog.original) = <<20, 15, 15>>
    /\ evalLog.original.total_score = 50
    /\ evalLog.original.ai_summary = DefaultSummaryLength

\* C24: one invocation of _call_groq_api makes at most max_retries (3)
\* requests, sleeps retry_delay * 2^attempt between a failed attempt and the
\* next (none after the last), returns the result of the first attempt that
\* gets a response, and when every attempt fails returns None without
\* raising, the evaluation of the article being None.
CallGroqApiRetriesWithBackoff ==
    evalLog.op = "evaluate" =>
        LET c == evalLog.first_call
        IN /\ c.requests <= MaxRetries
           /\ c.requests = IF evalLog.failures < MaxRetries
                           THEN evalLog.failures + 1 ELSE MaxRetries
           /\ Len(c.sleeps) = c.requests - 1
           /\ \A k \in 1..Len(c.sleeps) : c.sleeps[k] = RetryDelay * 2 ^ (k - 1)
           /\ (/\ evalLog.failures < MaxRetries
               /\ evalLog.response.json
               /\ PresentScoresInRange(evalLog.response)) =>
                    /\ c.result.ok
                    /\ evalLog.original = c.result
                    /\ evalLog.evaluation.ok
           /\ evalLog.failures >= MaxRetries =>
                    /\ ~c.result.ok
                    /\ ~evalLog.evaluation.ok
                    /\ evalLog.terminal = "FAILED"
                    /\ ~evalLog.saved

\* Every attempt of a call failed: three requests, sleeps of 2 and 4
\* seconds, no evaluation.
AllAttemptsFailedWitness ==
    /\ evalLog.op = "evaluate"
    /\ evalLog.failures = MaxRetries
    /\ evalLog.first_call.requests = 3
    /\ evalLog.first_call.sleeps = <<2, 4>>
    /\ ~evalLog.evaluation.ok

\* C25: a parse failure of the response (no JSON object in the content, or
\* malformed JSON) is retried like a transport failure, up to max_retries
\* attempts, before the evaluation is given up with None.
ParseFailureIsRetried ==
    (/\ evalLog.op = "evaluate"
     /\ evalLog.failures = 0
     /\ ~evalLog.response.json) =>
        /\ evalLog.first_call.requests = MaxRetries
        /\ ~evalLog.evaluation.ok

(***************************************************************************)
(* SpecRefStore: save_references and mark_as_processed in any order        *)
(***************************************************************************)
InitRefStore ==
    InitStores /\ InitLimiterAt(0) /\ InitEvaluator /\ InitProgram

NextRefStore == RefStoreSaveReferences \/ RefStoreMarkAsProcessed

SpecRefStore == InitRefStore /\ [][NextRefStore]_vars

\* C2: save_references on a (key, urlname) that is already stored leaves its
\* is_processed unchanged; under any sequence of save_references and
\* mark_as_processed calls is_processed never goes from true back to false.
IsProcessedNeverReset ==
    storeLog.op \in {"save_references", "mark_as_processed"} =>
        \A id \in DOMAIN storeLog.before :
            storeLog.before[id].is_processed =>
                (id \in DOMAIN refs /\ refs[id].is_processed)

(***************************************************************************)
(* SpecSaveTwice: save_references called with list after list, the same    *)
(* list again included, and mark_as_processed in between                   *)
(***************************************************************************)
\* Lists of one and two references; the two may be the same reference or
\* two descriptions of one identity.
RepeatedLists ==
    LET references == {ArticleReference(id[1], id[2], c, "t1", at) :
                            id \in RefIds, c \in Categories, at \in {1, 2}}
    IN {<<r>> : r \in references}
            \cup {<<r1, r2>> : r1 \in references, r2 \in references}

SaveReferencesAgain == SaveReferencesCall(RepeatedLists, TRUE)

NextSaveTwice == SaveReferencesAgain \/ RefStoreMarkAsProcessed

SpecSaveTwice == InitRefStore /\ [][NextSaveTwice]_vars

AllSaved(references) == [i \in 1..Len(references) |-> TRUE]

\* C21: save_references is idempotent: whatever the list and the store
\* before, saving the list a second time leaves the reference store as the
\* first save left it.
SaveReferencesIdempotent ==
    (/\ storeLog.op = "save_references"
     /\ storeLog.saved_count = Len(storeLog.references)) =>
        /\ refs = save_references(storeLog.before, storeLog.references,
                                  AllSaved(storeLog.references)).store
        /\ save_references(refs, storeLog.references,
                           AllSaved(storeLog.references)).store = refs

\* A list of two references was saved over a store that the same list had
\* produced and that differs from the empty store: the second save changed
\* nothing.
SavedTwiceWitness ==
    /\ storeLog.op = "save_references"
    /\ Len(storeLog.references) = 2
    /\ storeLog.saved_count = 2
    /\ storeLog.before = refs
    /\ \E id \in DOMAIN refs : ~refs[id].is_processed
    /\ refs = save_references(<<>>, storeLog.references,
                              AllSaved(storeLog.references)).store

(***************************************************************************)
(* SpecLimiter: callers of one registered service, each doing an admission *)
(* call, its external call, then record_request                            *)
(***************************************************************************)
InitLimiterSpec ==
    InitStores /\ InitLimiter /\ InitEvaluator /\ InitProgram

NextLimiter ==
    \/ \E c \in Callers : LimiterWaitIfNeeded(c)
    \/ \E c \in Callers : LimiterAwaitIfNeeded(c)
    \/ \E c \in Callers : LimiterRecordRequest(c)
    \/ LimiterTick

SpecLimiter == InitLimiterSpec /\ [][NextLimiter]_vars

AdmittedInWindow(i) ==
    Cardinality({j \in 1..Len(admitted) :
                    /\ admitted[j] >= admitted[i]
                    /\ admitted[j] < admitted[i] + MinuteWindow})

AdmittedOnDay(d) ==
    Cardinality({j \in 1..Len(admitted) : LocalDate(admitted[j]) = d})

MinuteCapHolds ==
    \A i \in 1..Len(admitted) : AdmittedInWindow(i) <= RequestsPerMinute

DayCapHolds ==
    \A i \in 1..Len(admitted) :
        AdmittedOnDay(LocalDate(admitted[i])) <= RequestsPerDay

\* C4: for every sequence of admission / record_request calls made one after
\* the other, the requests admitted within any 60-second window never
\* exceed requests_per_minute and the requests admitted within one local day
\* never exceed requests_per_day.
SequentialCallsKeepCaps ==
    ~overlap => (MinuteCapHolds /\ DayCapHolds)

\* C5: await_if_needed on a registered service never raises.
AwaitIfNeededNeverRaises ==
    \A c \in Callers : awaitOutcome[c] # "raised"

\* C6: with two or more concurrent callers of one service, under every
\* interleaving the per-minute and per-day caps hold: no two callers are
\* admitted on the strength of the same free slot.
ConcurrentCallersKeepCaps ==
    overlap => (MinuteCapHolds /\ DayCapHolds)

(***************************************************************************)
(* ImprovedDailyBatchProcessor (batch/daily_process_improved.py)           *)
(***************************************************************************)
MaxBatchRuns == 2

\* What the category pages list for a key in every run.
CategoryOf(key) == IF key = "k1" THEN "music" ELSE "movie"

\* collect_article_list: the identities the category pages list, in the
\* order collected (one entry per key).
SourceLists ==
    {<<>>} \cup {<<a>> : a \in RefIds}
           \cup {p \in {<<a, b>> : a \in RefIds, b \in RefIds} : p[1] # p[2]}

\* --categories and --limit of a run; {} stands for no --categories, <<>>
\* for no --limit (args.limit is None) and <<n>> for --limit n.
TargetCategories == {{}, {"music"}}
Limits == {<<>>, <<0>>, <<1>>}

\* "if self.limit": None and 0 are both false.
LimitIsSet(limit) == limit # <<>> /\ limit[1] # 0

Range(seq) == {seq[i] : i \in 1..Len(seq)}

\* The ArticleReference objects built from the list: collected_at is
\* datetime.now() at construction, later for later entries.
ReferencesOf(source, t) ==
    [i \in 1..Len(source) |->
        ArticleReference(source[i][1], source[i][2], CategoryOf(source[i][1]),
                         "t1", 2 * t + i)]

\* get_unprocessed_references: WHERE is_processed = FALSE ORDER BY
\* collected_at ASC.
RECURSIVE OrderByCollectedAt(_, _)
OrderByCollectedAt(store, ids) ==
    IF ids = {} THEN <<>>
    ELSE LET first == CHOOSE id \in ids :
                        \A other \in ids :
                            store[id].collected_at <= store[other].collected_at
         IN <<first>> \o OrderByCollectedAt(store, ids \ {first})

\* Variant: ORDER BY collected_at DESC.
GetUnprocessedReferencesNewestFirst(store) ==
    LET ascending == OrderByCollectedAt(store, UnprocessedIds(store))
    IN [i \in 1..Len(ascending) |-> ascending[Len(ascending) - i + 1]]

get_unprocessed_references(store) ==
    OrderByCollectedAt(store, UnprocessedIds(store))

\* The filter by target_categories and the cut at limit.
FilterAndLimit(store, unprocessed, target, limit) ==
    LET InTarget(id) == store[id].category \in target
        filtered == IF target # {} THEN SelectSeq(unprocessed, InTarget)
                    ELSE unprocessed
    IN IF LimitIsSet(limit) /\ Len(filtered) > limit[1]
       THEN SubSeq(filtered, 1, limit[1])
       ELSE filtered

\* evaluate_article_with_full_content once await_if_needed has returned:
\* the evaluation r of _evaluate_single_article is returned, and
\* record_request is called when there is one.
EvaluateAdmitted(w, at, r) ==
    [evaluation |-> r.evaluation, recent |-> r.recent, outcome |-> "returned",
     lim |-> IF r.evaluation.ok THEN record_request(w.lim, at) ELSE w.lim,
     clock |-> at, requests |-> r.requests]

\* evaluate_article_with_full_content: await_if_needed comes first, inside
\* the try; when it raises the except branch logs and None is returned.
evaluate_article_with_full_content(id, recent, lim, t, call1, call2) ==
    IF LockIsNone
    THEN [evaluation |-> NoResult, recent |-> recent, outcome |-> "raised",
          lim |-> lim, clock |-> t, requests |-> 0]
    ELSE EvaluateAdmitted(
             _wait_if_needed(lim, t),
             AfterSleep(t, _wait_if_needed(lim, t).wait_time),
             _evaluate_single_article(id, recent, call1, call2))

\* The content_preview of a fetched detail: full_text[:200].  A text is kept
\* as its length.
content_preview(body) == IF body > PreviewLength THEN PreviewLength ELSE body

\* Variant: the article is built with the full text as its preview.
ArticleForDbWithFullContent(id, in) ==
    [id |-> article_id([key |-> id[1], urlname |-> id[2]]),
     title |-> refs[id].title, category |-> refs[id].category,
     content_preview |-> in.body, is_evaluated |-> FALSE]

\* article_for_db: the Article built from the reference and the detail,
\* is_evaluated left to its default.
article_for_db(id, in) ==
    [id |-> article_id([key |-> id[1], urlname |-> id[2]]),
     title |-> refs[id].title, category |-> refs[id].category,
     content_preview |-> content_preview(in.body), is_evaluated |-> FALSE]

\* Variant: the reference is marked processed as soon as the article is
\* saved, whether or not an evaluation was written.
SaveEvaluationAndMarkEarly(id, in, a, e) ==
    LET v == IF e.evaluation.ok
             THEN save_evaluations(evaluations, e.evaluation, in.evalBatchOk,
                                   in.evalSingleOk)
             ELSE [rows |-> evaluations, saved_count |-> 0]
        done == a.saved_count > 0
    IN [articles |-> a.store,
        refs |-> IF done
                 THEN mark_as_processed(refs, id[1], id[2], in.markRefOk)
                 ELSE refs,
        evaluations |-> v.rows,
        recent |-> e.recent, outcome |-> e.outcome, lim |-> e.lim,
        clock |-> e.clock,
        articleWrites |-> a.saved_count, evaluationWrites |-> v.saved_count,
        steps |-> <<[step |-> "article", ok |-> a.saved_count > 0]>>
                  \o (IF a.saved_count > 0
                      THEN <<[step |-> "evaluate", ok |-> e.evaluation.ok]>>
                      ELSE <<>>)
                  \o (IF done THEN <<[step |-> "mark", ok |-> in.markRefOk]>>
                      ELSE <<>>)]

\* The end of a loop iteration, a being what save_articles returned and e
\* what evaluate_article_with_full_content returned: save_evaluations when
\* there is an evaluation, and when it was saved mark_as_evaluated and
\* mark_as_processed.
SaveEvaluationAndMark(id, in, a, e) ==
    LET v == IF e.evaluation.ok
             THEN save_evaluations(evaluations, e.evaluation, in.evalBatchOk,
                                   in.evalSingleOk)
             ELSE [rows |-> evaluations, saved_count |-> 0]
        done == v.saved_count > 0
    IN [articles |-> IF done
                     THEN mark_as_evaluated(a.store, article_for_db(id, in).id,
                                            in.markEvalOk)
                     ELSE a.store,
        refs |-> IF done
                 THEN mark_as_processed(refs, id[1], id[2], in.markRefOk)
                 ELSE refs,
        evaluations |-> v.rows,
        recent |-> e.recent, outcome |-> e.outcome, lim |-> e.lim,
        clock |-> e.clock,
        articleWrites |-> a.saved_count, evaluationWrites |-> v.saved_count,
        steps |-> <<[step |-> "article", ok |-> a.saved_count > 0]>>
                  \o (IF a.saved_count > 0
                      THEN <<[step |-> "evaluate", ok |-> e.evaluation.ok]>>
                      ELSE <<>>)
                  \o (IF e.evaluation.ok
                      THEN <<[step |-> "evaluation", ok |-> done]>> ELSE <<>>)
                  \o (IF done THEN <<[step |-> "mark", ok |-> in.markRefOk]>>
                      ELSE <<>>)]

\* The evaluation step, a being what save_articles returned: only when the
\* article was saved.
EvaluateSaved(id, in, a) ==
    SaveEvaluationAndMark(id, in, a,
        IF a.saved_count > 0
        THEN evaluate_article_with_full_content(
                 article_for_db(id, in).id, recent_evaluations, Limiter, clock,
                 in.call1, in.call2)
        ELSE [evaluation |-> NoResult, recent |-> recent_evaluations,
              outcome |-> "none", lim |-> Limiter, clock |-> clock,
              requests |-> 0])

\* Variant: a reference whose article could not be saved is marked
\* processed.
ProcessFetchedGivingUpOnFailure(id, in) ==
    LET a == save_articles(articles, article_for_db(id, in), in.articleBatchOk,
                           in.articleSingleOk)
        r == EvaluateSaved(id, in, a)
    IN IF a.saved_count = 0
       THEN [r EXCEPT !.refs = mark_as_processed(refs, id[1], id[2], TRUE)]
       ELSE r

\* The part of one loop iteration after a successful detail fetch:
\* save_articles, evaluate_article_with_full_content, save_evaluations,
\* mark_as_evaluated, mark_as_processed.
ProcessFetched(id, in) ==
    EvaluateSaved(id, in,
        save_articles(articles, article_for_db(id, in), in.articleBatchOk,
                      in.articleSingleOk))

\* The references and articles untouched: an iteration that ended before
\* save_articles.
NotFetched ==
    [articles |-> articles, refs |-> refs, evaluations |-> evaluations,
     recent |-> recent_evaluations, outcome |-> "none", lim |-> Limiter,
     clock |-> clock, articleWrites |-> 0, evaluationWrites |-> 0,
     steps |-> <<>>]

\* The faults and LLM outcomes one loop iteration can meet, and whether the
\* fetched detail is that of a paid or unreadable note (price > 0 or
\* can_read false).  The LLM outcomes matter only when the admission call
\* returns.
ItemInputs(calls, bodies) ==
    [tokenOk : BOOLEAN, fetchOk : BOOLEAN, paid : BOOLEAN, body : bodies,
     articleBatchOk : BOOLEAN, articleSingleOk : {FALSE},
     evalBatchOk : {TRUE}, evalSingleOk : {TRUE},
     markEvalOk : {TRUE}, markRefOk : BOOLEAN,
     call1 : IF LockIsNone THEN {AllAttemptsFail} ELSE calls,
     call2 : IF LockIsNone THEN {AllAttemptsFail} ELSE calls]

NoFault(in) == in.tokenOk /\ in.fetchOk /\ in.articleBatchOk /\ in.markRefOk

\* The steps of a loop iteration before save_articles: the session tokens
\* when the scraper has none, and the detail fetch when it has them.
FetchSteps(ready, in) ==
    (IF ready THEN <<>> ELSE <<[step |-> "session", ok |-> in.tokenOk]>>)
        \o (IF ready \/ in.tokenOk
            THEN <<[step |-> "fetch", ok |-> in.fetchOk]>> ELSE <<>>)

\* An iteration that did not end with mark_as_processed done.
ItemFailed(steps) ==
    \/ steps = <<>>
    \/ steps[Len(steps)].step # "mark"
    \/ ~steps[Len(steps)].ok

\* Variant: a failed iteration ends the loop.
NextReferencesEndingOnFailure(references, failed) ==
    IF failed THEN <<>> ELSE Tail(references)

\* The for loop over unprocessed_refs: after an iteration, ended by
\* continue, by the except branch or at its end, the next reference is
\* taken.
NextReferences(references, failed) == Tail(references)

\* _collect_and_evaluate_with_references up to the loop: collect the list,
\* return when it is empty; build and save the references, read the
\* unprocessed ones back, filter, limit, return when nothing is left.
BatchRun(store, run, t) ==
    /\ \E source \in SourceLists, target \in TargetCategories, limit \in Limits :
        LET saved == save_references(store, ReferencesOf(source, t),
                                     [i \in 1..Len(source) |-> TRUE]).store
            todo == FilterAndLimit(saved, get_unprocessed_references(saved),
                                   target, limit)
        IN /\ refs' = IF source = <<>> THEN store ELSE saved
           /\ queue' = IF source = <<>> THEN <<>> ELSE todo
           /\ pc' = IF source = <<>> \/ todo = <<>> THEN "idle" ELSE "batch"
           /\ recent_evaluations' =
                IF source = <<>> \/ todo = <<>> THEN recent_evaluations ELSE <<>>
           /\ runLog' = [run |-> run, source |-> Range(source),
                         prevSource |-> runLog.source, fetched |-> {},
                         processedBefore |->
                            {id \in DOMAIN store : store[id].is_processed},
                         complete |-> (target = {} /\ ~LimitIsSet(limit)),
                         limit |-> limit,
                         prevComplete |-> runLog.complete,
                         articleWrites |-> 0, evaluationWrites |-> 0,
                         fetchOrder |-> <<>>,
                         item |-> [id |-> <<>>, steps |-> <<>>,
                                   paid |-> FALSE, body |-> 0]]
    /\ now' = t
    /\ sessionReady' = FALSE
    /\ UNCHANGED <<probeVars, startupVars, collectorVars, articles, evaluations, storeLog, limiterVars, checked,
                   evalLog, runNo>>

BatchStart ==
    /\ pc = "idle"
    /\ runLog.run < MaxBatchRuns
    /\ BatchRun(refs, runLog.run + 1, now + 1)

\* The runs after the MaxBatchRuns-th, for the batch that is scheduled again
\* and again.  collected_at is only ever compared, so the clock is not
\* advanced without bound: the stored timestamps are replaced by their ranks,
\* all below 2 * now, which keeps their order, and this run's references get
\* the timestamps 2 * now + i, later than every stored one.
BatchStartAgain ==
    /\ pc = "idle"
    /\ runLog.run = MaxBatchRuns
    /\ LET stamps == {refs[x].collected_at : x \in DOMAIN refs}
           Rank(c) == Cardinality({d \in stamps : d < c})
           earlier == [x \in DOMAIN refs |->
                         [refs[x] EXCEPT !.collected_at = Rank(@)]]
       IN BatchRun(earlier, runLog.run, now)

\* One iteration of the loop over unprocessed_refs: the session tokens
\* when the scraper has none, the detail fetch, and the rest when both
\* succeeded.
BatchProcessReference(calls, bodies) ==
    /\ pc = "batch"
    /\ queue # <<>>
    /\ \E in \in ItemInputs(calls, bodies) :
       \E r \in {IF (sessionReady \/ in.tokenOk) /\ in.fetchOk
                 THEN ProcessFetched(Head(queue), in) ELSE NotFetched} :
           /\ sessionReady' = (sessionReady \/ in.tokenOk)
           /\ refs' = r.refs
           /\ articles' = r.articles
           /\ evaluations' = r.evaluations
           /\ recent_evaluations' = r.recent
           /\ awaitOutcome' =
                IF r.outcome # "none"
                THEN [awaitOutcome EXCEPT !["c1"] = r.outcome]
                ELSE awaitOutcome
           /\ clock' = r.clock
           /\ request_times' = r.lim.request_times
           /\ daily_count' = r.lim.daily_count
           /\ last_reset_date' = r.lim.last_reset_date
           /\ runLog' =
                [runLog EXCEPT
                    !.fetched = IF sessionReady \/ in.tokenOk
                                THEN @ \cup {Head(queue)} ELSE @,
                    !.complete = @ /\ NoFault(in),
                    !.articleWrites = @ + r.articleWrites,
                    !.evaluationWrites = @ + r.evaluationWrites,
                    !.fetchOrder = IF sessionReady \/ in.tokenOk
                                   THEN Append(@, Head(queue)) ELSE @,
                    !.item = [id |-> Head(queue),
                              steps |-> FetchSteps(sessionReady, in) \o r.steps,
                              paid |-> (sessionReady \/ in.tokenOk)
                                        /\ in.fetchOk /\ in.paid,
                              body |-> IF (sessionReady \/ in.tokenOk)
                                            /\ in.fetchOk
                                       THEN in.body ELSE 0]]
           /\ queue' = NextReferences(
                           queue, ItemFailed(FetchSteps(sessionReady, in)
                                                \o r.steps))
    /\ UNCHANGED <<probeVars, startupVars, collectorVars, storeLog, callerPc, admitted, overlap, ticks, checked,
                   evalLog, pc, runNo, now>>

\* The loop is over: the count is returned and the scraper is closed.
BatchFinish ==
    /\ pc = "batch"
    /\ queue = <<>>
    /\ pc' = "idle"
    /\ UNCHANGED <<probeVars, startupVars, collectorVars, storeVars, limiterVars, evaluatorVars, runNo, queue, now,
                   sessionReady, runLog>>

(***************************************************************************)
(* Spec: runs of the improved daily batch and of the batch evaluation      *)
(* script, one after the other, over one database                          *)
(***************************************************************************)
ProgramContents ==
    {NoJsonContent, JsonContent(AllFields, 20, 15, 15, 50, 40)}

ProgramCalls == CallsWith(ProgramContents, {0})

Init == InitStores /\ InitLimiterAt(0) /\ InitEvaluator /\ InitProgram

BatchProcess == BatchProcessReference(ProgramCalls, {5000})

ScriptEvaluateProgram == ScriptEvaluateArticle(ProgramCalls)

Next ==
    \/ BatchStart
    \/ BatchProcess
    \/ BatchFinish
    \/ ScriptStart
    \/ ScriptEvaluateProgram
    \/ ScriptFinish

Spec == Init /\ [][Next]_vars

\* C1: once a reference has been marked processed no later batch run issues
\* a detail fetch for it; a second run over the same source items, after a
\* run that processed them all without a fault, performs zero detail
\* fetches and writes no new article or evaluation.
ProcessedReferenceNeverRefetched ==
    /\ runLog.fetched \cap runLog.processedBefore = {}
    /\ (/\ runLog.run >= 2
        /\ runLog.prevComplete
        /\ runLog.source = runLog.prevSource) =>
            /\ runLog.fetched = {}
            /\ runLog.articleWrites = 0
            /\ runLog.evaluationWrites = 0

\* C3: after any sequence of runs the evaluation store holds at most one
\* evaluation per article_id (a repeated evaluation of an article leaves
\* exactly one row for it).
AtMostOneEvaluationPerArticle ==
    \A i, j \in 1..Len(evaluations) :
        evaluations[i].article_id = evaluations[j].article_id => i = j

(***************************************************************************)
(* SpecBatch: runs of the improved batch alone                             *)
(***************************************************************************)
\* The lengths of the cleaned body of a fetched article.
BodyLengths == {0, 150, 200, 201, 5000}

BatchProcessBody == BatchProcessReference(ProgramCalls, BodyLengths)

NextBatch == BatchStart \/ BatchProcessBody \/ BatchFinish

SpecBatch == Init /\ [][NextBatch]_vars

StepOrder == <<"fetch", "article", "evaluate", "evaluation", "mark">>

IsItemStep(s) == s.step # "session"

\* The steps of the last iteration, the session tokens aside.
ItemSteps == SelectSeq(runLog.item.steps, IsItemStep)

ArticleIdOf(id) == article_id([key |-> id[1], urlname |-> id[2]])

HasEvaluationRow(id) ==
    \E i \in 1..Len(evaluations) : evaluations[i].article_id = ArticleIdOf(id)

\* C15: for each reference processed in a run the steps come in the order
\* detail fetch, article persist, evaluation, evaluation persist,
\* mark-processed, each step only after the previous one succeeded; no
\* reference is marked processed before its evaluation row is written.
StepsInOrderEachAfterSuccess ==
    /\ Len(ItemSteps) <= Len(StepOrder)
    /\ \A k \in 1..Len(ItemSteps) :
            /\ ItemSteps[k].step = StepOrder[k]
            /\ k > 1 => ItemSteps[k - 1].ok
    /\ \A k \in 1..Len(runLog.item.steps) :
            runLog.item.steps[k].step = "session" =>
                /\ k = 1
                /\ Len(runLog.item.steps) > 1 => runLog.item.steps[1].ok
    /\ \A k \in 1..Len(ItemSteps) :
            (ItemSteps[k].step = "article" /\ ItemSteps[k].ok)
                => ArticleIdOf(runLog.item.id) \in DOMAIN articles
    /\ \A id \in DOMAIN refs : refs[id].is_processed => HasEvaluationRow(id)

\* An iteration fetched the detail, saved the article and went on to the
\* evaluation.
EvaluationAfterArticleSavedWitness ==
    /\ Len(ItemSteps) >= 3
    /\ ItemSteps[1].ok /\ ItemSteps[2].ok
    /\ ItemSteps[3].step = "evaluate"
    /\ ArticleIdOf(runLog.item.id) \in DOMAIN articles

\* C16: within one batch the references of the processed slice have their
\* detail fetches issued in the order of collected_at: when A was collected
\* earlier than B, A's fetch comes before B's.
FetchesInCollectionOrder ==
    \A i, j \in 1..Len(runLog.fetchOrder) :
        refs[runLog.fetchOrder[i]].collected_at
            < refs[runLog.fetchOrder[j]].collected_at => i < j

\* A reference left unprocessed by an earlier run was fetched before one
\* collected in this run.
OlderReferenceFetchedFirstWitness ==
    /\ Len(runLog.fetchOrder) = 2
    /\ refs[runLog.fetchOrder[1]].collected_at < 2 * now + 1
    /\ refs[runLog.fetchOrder[2]].collected_at >= 2 * now + 1

\* C18: an item that is paid or unreadable (price > 0 or can_read false) is
\* discarded: no article row and no evaluation row is written for it, its
\* reference is marked processed all the same, and the loop goes on to the
\* next reference.
PaidItemDiscardedAndMarkedProcessed ==
    runLog.item.paid =>
        /\ \A k \in 1..Len(ItemSteps) :
                ItemSteps[k].step \notin {"article", "evaluate", "evaluation"}
        /\ refs[runLog.item.id].is_processed

\* C19: when persisting the article or persisting the evaluation fails for
\* an item, the item is skipped (no later step is taken for it) and its
\* reference is left with is_processed = false, so that the next batch
\* selects it again.
PersistFailureLeavesReferenceUnprocessed ==
    \A k \in 1..Len(ItemSteps) :
        (ItemSteps[k].step \in {"article", "evaluation"} /\ ~ItemSteps[k].ok) =>
            /\ k = Len(ItemSteps)
            /\ ~refs[runLog.item.id].is_processed
            /\ runLog.item.id \in Range(get_unprocessed_references(refs))

\* The article of a fetched item could not be saved.
ArticlePersistFailedWitness ==
    /\ Len(ItemSteps) = 2
    /\ ItemSteps[1].ok
    /\ ItemSteps[2].step = "article" /\ ~ItemSteps[2].ok
    /\ ~refs[runLog.item.id].is_processed

\* The rows of the other references are as they were before the step, x
\* being the reference of the iteration.
OtherRowsUnchanged(x) ==
    /\ \A id \in DOMAIN refs \ {x} :
            id \in DOMAIN refs' /\ refs'[id] = refs[id]
    /\ \A a \in DOMAIN articles \ {ArticleIdOf(x)} :
            a \in DOMAIN articles' /\ articles'[a] = articles[a]
    /\ Len(evaluations') >= Len(evaluations)
    /\ \A i \in 1..Len(evaluations') :
            IF i <= Len(evaluations) THEN evaluations'[i] = evaluations[i]
            ELSE evaluations'[i].article_id = ArticleIdOf(x)

\* C20: a failure while processing one reference (session tokens, detail
\* fetch, persistence, evaluation, any exception) never ends the loop: the
\* iteration ends, the next reference of the slice is taken, the loop is
\* left only when no reference remains, and the rows of the other
\* references are left as they were.
FailureNeverEndsLoop ==
    [][pc = "batch" =>
        IF queue # <<>>
        THEN /\ pc' = "batch"
             /\ queue' = Tail(queue)
             /\ runLog'.item.id = Head(queue)
             /\ OtherRowsUnchanged(Head(queue))
        ELSE pc' = "idle"]_vars

\* The first reference of a run of two failed before its article was
\* saved, and the second was fetched and its article saved.
SecondAttemptedAfterFailureWitness ==
    /\ Len(runLog.fetchOrder) = 2
    /\ ArticleIdOf(runLog.fetchOrder[1]) \notin DOMAIN articles
    /\ runLog.item.id = runLog.fetchOrder[2]
    /\ ArticleIdOf(runLog.fetchOrder[2]) \in DOMAIN articles

\* C23: for every reference the derived article_id is "{key}_{urlname}",
\* key first, and the derived article_url is
\* https://{host}/{urlname}/n/{key}; the article persisted for the
\* reference has exactly that id.
ArticleIdIsKeyThenUrlname ==
    \A k \in 1..Len(ItemSteps) :
        (ItemSteps[k].step = "article" /\ ItemSteps[k].ok) =>
            LET ref == [key |-> runLog.item.id[1],
                        urlname |-> runLog.item.id[2]]
            IN /\ article_id(ref) = ref.key \o "_" \o ref.urlname
               /\ article_url(ref)
                    = "https://note.com/" \o ref.urlname \o "/n/" \o ref.key
               /\ (ref.key \o "_" \o ref.urlname) \in DOMAIN articles

\* C22: no write to the article, evaluation or reference store holds the
\* full article body: only the content_preview, at most the first 200
\* characters of the cleaned body, is persisted, whatever the length of the
\* body fetched.
OnlyPreviewPersisted ==
    /\ \A a \in DOMAIN articles : articles[a].content_preview <= PreviewLength
    /\ \A k \in 1..Len(ItemSteps) :
            (ItemSteps[k].step = "article" /\ ItemSteps[k].ok) =>
                LET row == articles[ArticleIdOf(runLog.item.id)]
                IN /\ row.content_preview <= runLog.item.body
                   /\ runLog.item.body <= PreviewLength
                        => row.content_preview = runLog.item.body
                   /\ runLog.item.body > PreviewLength
                        => row.content_preview = PreviewLength
    /\ \A id \in DOMAIN refs :
            DOMAIN refs[id] = {"category", "title", "collected_at", "is_processed"}
    /\ \A i \in 1..Len(evaluations) : evaluations[i].ai_summary <= 300

\* The article of a body much longer than the preview was saved.
LongBodyArticleSavedWitness ==
    /\ runLog.item.body > PreviewLength
    /\ Len(ItemSteps) >= 2
    /\ ItemSteps[2].step = "article" /\ ItemSteps[2].ok
    /\ articles[ArticleIdOf(runLog.item.id)].content_preview = PreviewLength

(***************************************************************************)
(* SpecCollector: one call of _fetch_api_article_list for a category       *)
(***************************************************************************)
NextCollector == CollectorStart \/ CollectorFetchPage

SpecCollector == Init /\ [][NextCollector]_vars

\* C26: for a category at most max_pages list requests are issued and none
\* after a response signalling isLast = true; a page 1 response with
\* isLast = true is never followed by a request for page 2.
NoRequestAfterLastPage ==
    /\ Len(collector.requests) <= MaxPages
    /\ \A i \in 1..Len(collector.requests) :
            /\ collector.requests[i].page = i
            /\ (collector.requests[i].status = 200
                    /\ collector.requests[i].isLast) =>
                    /\ i = Len(collector.requests)
                    /\ collector.pc = "done"

\* Page 1 answered 200 with isLast = true and the list was returned after
\* that one request.
LastOnFirstPageWitness ==
    /\ collector.pc = "done"
    /\ Len(collector.requests) = 1
    /\ collector.requests[1].status = 200
    /\ collector.requests[1].isLast
    /\ collector.articles = 1

\* C27: when the list endpoint answers 429 for page N the collector waits
\* 30 seconds and its next list request is again for page N.
RateLimitedPageIsRequestedAgain ==
    \A i \in 1..Len(collector.requests) :
        collector.requests[i].status = 429 =>
            /\ collector.sleeps[i] = RateLimitWait
            /\ (collector.pc = "done" \/ i < Len(collector.requests)) =>
                    /\ i < Len(collector.requests)
                    /\ collector.requests[i + 1].page = collector.requests[i].page

\* C28: when the list endpoint answers a status >= 500 for page N the
\* collector waits 10 seconds and requests page N once more; when that
\* request fails too no further list request is issued for the category.
ServerErrorPageIsRetriedOnce ==
    \A i \in 1..Len(collector.requests) :
        (/\ collector.requests[i].status >= 500
         /\ (i = 1 \/ collector.requests[i - 1].status < 500)) =>
            /\ collector.sleeps[i] = ServerErrorWait
            /\ (collector.pc = "done" \/ i < Len(collector.requests)) =>
                    /\ i < Len(collector.requests)
                    /\ collector.requests[i + 1].page = collector.requests[i].page
                    /\ collector.requests[i + 1].status >= 500
                            => Len(collector.requests) = i + 1

\* C30: with --limit n at most n references are detail-fetched in the run,
\* for every non-negative n, the cap being applied to the unprocessed
\* references in collection order after the category filter.
LimitCapsProcessedReferences ==
    runLog.limit # <<>> =>
        Cardinality(runLog.fetched)
            + (IF pc = "batch" THEN Len(queue) ELSE 0) <= runLog.limit[1]

(***************************************************************************)
(* SpecStartup: the start of main() under every environment                *)
(***************************************************************************)
NextStartup ==
    LoadEnvironment \/ ConstructProcessor \/ RunDailyBatch \/ FinishDailyBatch

SpecStartup == Init /\ [][NextStartup]_vars

\* The LLM key set and the five social credentials all set or all unset.
AcceptableEnvironment(env) ==
    /\ env["GROQ_API_KEY"]
    /\ \/ \A v \in twitter_credentials : env[v]
       \/ \A v \in twitter_credentials : ~env[v]

\* C29: startup validation accepts exactly the environments with the LLM
\* API key set and the five social credentials all set or all unset; for
\* every other one validate_required_env_vars raises and the batch does not
\* start.
StartupAcceptsExactlyAcceptableEnvironments ==
    /\ startup.pc \in {"constructed", "run_daily_batch"}
            => AcceptableEnvironment(startup.env)
    /\ (startup.pc = "exit 1" /\ startup.run = <<>>)
            => ~AcceptableEnvironment(startup.env)

\* C31: in every full run, once the streaming pass has finished, the
\* publisher is invoked to regenerate the feeds, whatever the number of
\* evaluations the pass produced.
PublisherInvokedAfterEveryPass ==
    (startup.run # <<>> /\ ~startup.run[1].in.raised)
        => startup.run[1].invoked

\* C32: the process exits with code 0 only when the run succeeded, and with
\* code 1 on any fatal failure: missing configuration, an exception escaping
\* the collection and evaluation stage, a publisher failure.
ExitCodeTellsSuccess ==
    /\ startup.pc = "exit 0" =>
            /\ validate_required_env_vars(startup.env)
            /\ ~startup.run[1].in.raised
            /\ startup.run[1].invoked => startup.run[1].in.json_success
    /\ (startup.run # <<>> /\ startup.run[1].in.raised)
            => startup.pc = "exit 1"

\* C34: every outbound request of the streaming pipeline passes the rate
\* limiter: each detail fetch to the source platform (and each request to
\* the LLM service) is preceded by an admission for its service and is
\* recorded in that service's history, whether or not it succeeds.  The
\* calls of an iteration are its steps; the limiter calls the loop makes are
\* those of the "evaluate" step.
EveryRequestPassesLimiter ==
    \A i \in 1..Len(runLog.item.steps) :
        runLog.item.steps[i].step = "fetch" =>
            /\ i > 1
            /\ runLog.item.steps[i - 1].step = "await_if_needed"
            /\ i < Len(runLog.item.steps)
            /\ runLog.item.steps[i + 1].step = "record_request"

\* C35: with stop_after_old_articles enabled (the default), when a fetched
\* list page holds an item older than the threshold the collector issues no
\* request for a later page of the category.
OldItemStopsPagination ==
    \A i \in 1..Len(collector.requests) :
        (collector.requests[i].status = 200 /\ collector.requests[i].old > 0)
            => i = Len(collector.requests)

(***************************************************************************)
(* SpecWait: a RateLimiter with a per-second cap, called at sub-second     *)
(* distances                                                               *)
(***************************************************************************)
NextWait == ProbeRecordRequest \/ ProbeTick \/ ProbeWaitIfNeeded

SpecWait == Init /\ [][NextWait]_vars

\* 60 s minus the age of the oldest request in the window when the
\* per-minute cap is hit.
MinuteWait ==
    IF Len(probe.request_times) >= ProbeRateLimit.requests_per_minute
    THEN MinuteWindow * ProbeSecond - (probe.t - Head(probe.request_times))
    ELSE 0

\* 1 s minus the time since the last request when the per-second cap (one
\* request a second) is hit.
SecondWait ==
    IF /\ probe.request_times # <<>>
       /\ probe.t - probe.request_times[Len(probe.request_times)] < ProbeSecond
    THEN ProbeSecond - (probe.t - probe.request_times[Len(probe.request_times)])
    ELSE 0

\* C36: with the daily cap not exhausted, the wait computed by
\* _wait_if_needed is the maximum of 60 s minus the age of the oldest
\* request of the minute window (per-minute cap hit) and the time left until
\* the per-second cap allows a request (per-second cap hit).
WaitIsMaximumOfBothWaits ==
    probe.pc = "waited" =>
        probe.wait_time
            = IF MinuteWait >= SecondWait THEN MinuteWait ELSE SecondWait

(***************************************************************************)
(* SpecIdentity: references whose urlnames hold underscores are collected  *)
(* and their articles saved                                                *)
(***************************************************************************)
\* Identities as the platform issues them: a key is "n" and digits, a
\* urlname is made of letters, digits and underscores.
NoteIdentities == {"n1", "n2"} \X {"u", "u_n1", "u_n2"}

\* A collected reference is saved (save_references with a list of one).
IdentityCollect ==
    /\ \E id \in NoteIdentities :
        /\ refs' = save_references(
                        refs, <<ArticleReference(id[1], id[2], "music", "t1", 1)>>,
                        <<TRUE>>).store
        /\ storeLog' = [op |-> "save_references", before |-> refs]
    /\ UNCHANGED <<probeVars, startupVars, collectorVars, articles,
                   evaluations, limiterVars, evaluatorVars, programVars>>

\* The loop body up to save_articles for a stored reference: the article
\* is built with id = ref.article_id and saved.
IdentitySaveArticle ==
    /\ \E id \in DOMAIN refs :
        /\ articles' = save_articles(articles, article_for_db(id, [body |-> 150]),
                                     TRUE, TRUE).store
        /\ storeLog' = [op |-> "save_articles", id |-> id,
                        before |-> articles]
    /\ UNCHANGED <<probeVars, startupVars, collectorVars, refs, evaluations,
                   limiterVars, evaluatorVars, programVars>>

SpecIdentity == Init /\ [][IdentityCollect \/ IdentitySaveArticle]_vars

SpecBatchFair ==
    /\ Init
    /\ [][NextBatch \/ BatchStartAgain]_vars
    /\ WF_vars(NextBatch \/ BatchStartAgain)

\* The last iteration was for id: its detail was fetched and its article
\* saved, no step before the evaluation failed.
AttemptedWithoutFault(id) ==
    /\ runLog.item.id = id
    /\ \E i \in 1..Len(runLog.item.steps) :
            /\ runLog.item.steps[i].step = "article"
            /\ runLog.item.steps[i].ok
    /\ \A i \in 1..Len(runLog.item.steps) :
            runLog.item.steps[i].step \in {"session", "fetch", "article"}
                => runLog.item.steps[i].ok

\* C38: under repeated runs every unprocessed reference whose detail fetch,
\* persistence and evaluation would succeed is eventually marked processed,
\* also when earlier-collected references fail on every run: a reference
\* whose detail was fetched and whose article was saved is marked processed
\* in that run or a later one.
GoodReferenceEventuallyProcessed ==
    \A id \in RefIds :
        AttemptedWithoutFault(id)
            ~> (id \in DOMAIN refs /\ refs[id].is_processed)

\* C39: at the end of processing any item, in any run, the redo of an
\* already evaluated article included, an article row has is_evaluated true
\* exactly when an evaluation row exists for its id.
IsEvaluatedIffEvaluationExists ==
    \A x \in DOMAIN articles :
        articles[x].is_evaluated
            <=> \E i \in 1..Len(evaluations) : evaluations[i].article_id = x

\* C40: the score pattern of every evaluation the evaluator returns, an
\* accepted retry result included, is in the recent_evaluations window at
\* the moment it is returned.
ReturnedPatternInWindow ==
    (evalLog.op = "evaluate" /\ evalLog.evaluation.ok) =>
        PatternCount(recent_evaluations, ScorePattern(evalLog.evaluation)) >= 1

====
